---------------------------- MODULE Spec2Model ----------------------------
(***************************************************************************)
(* Verification model of the Azure DevOps AI assistant:                    *)
(*   - the pattern command parser   (src/src/services/chat/command_parser) *)
(*   - the LLM-driven command parser (same file, CommandLLMParser)         *)
(*   - the orchestrator's message cycle (src/src/app_controller.py)        *)
(*   - the chat widget's worker threads (src/src/ui/chat_widget.py)        *)
(* Texts are TLA+ strings; a character is a string of length one.          *)
(***************************************************************************)
EXTENDS Integers, Sequences, FiniteSets, TLC

VARIABLES
    pText,      \* CommandParser.parse: the argument text
    pResult,    \* CommandParser.parse: the ParsedCommand returned (NoResult before)
    pPc,        \* "input" before the call, "parsed" once it returned, "raised" otherwise
    pExc,       \* CommandParser.parse: the exception that left the call, "" for none
    oPc,        \* AppController.process_message: where the cycle stands
    oMessage,   \* the user message of the cycle
    oNow,       \* the date datetime.now() gives during the cycle
    oConfigured,\* whether initialize_azure_devops created the service
    oReply,     \* <<content>> once the provider has answered the parser's prompt, <<>> before
    oParsed,    \* `parsed`: what CommandLLMParser.parse returned
    oFunc,      \* `func_name`
    oParams,    \* `params`
    oCall,      \* the tracking-service call the cycle is about to make
    oStatus,    \* the HTTP status the tracking service answered with, 0 for none
    oDados,     \* `dados`: the number of records obtained, -1 before
    oTrace,     \* the components that have run in the cycle, in order
    oOutcome,   \* how process_user_message ended: a value returned or an exception
    oProviders, \* the number of LLM provider objects constructed since start-up
    cInput,     \* ChatWidget: the text of input_entry
    cUi,        \* the interface thread: "idle" in the main loop, "sending" in send_message
    cMsg,       \* `message` of the send_message that is running
    cHistory,   \* self.messages
    cDisplay,   \* the text chat_display holds, as the chunks inserted
    cStatus,    \* the text of the status bar
    cWorkers,   \* the threads send_message started, in order
    gProvider,  \* a provider's generate: the vendor of the provider object
    gRequest,   \* the LLMRequest it is called with
    gOutcome,   \* what the call gave: an LLMResponse or an exception
    gPc,        \* "call" before generate, "vendor" while the vendor is asked, "done" after
    gVendor,    \* what the vendor's API did with the request
    vCommand,   \* CommandValidator.validate_command: the ParsedCommand
    vLevel,     \* the validation level
    vResult,    \* the ValidationResult
    vPc,        \* "input" before the call, "validated" after it
    sCommand,   \* CommandValidator's text functions: the command text
    sSanitized, \* _sanitize_command(sCommand)
    sAgain,     \* _sanitize_command of that
    sScore,     \* get_security_score(sCommand)
    sPc,        \* "input", then "sanitized", "again" or "scored"
    tCall,      \* ResponseTemplateEngine: the call, its template name or error type, its variables
    tOutcome,   \* how the call ended
    tPc,        \* "call" before it, "rendered" after it
    kActive,    \* ConversationManager.active_sessions: session id -> session
    kClock,     \* datetime.now(), in seconds after 2024-01-01 00:00:00
    kNext,      \* the number the next message gets: messages are numbered as they are added
    kCall,      \* the last call of the manager and what it returned
    kBefore,    \* active_sessions when that call began
    kAdds,      \* add_message calls made
    kCreates    \* create_session calls made

parserVars == <<pText, pResult, pPc, pExc>>
orchVars == <<oPc, oMessage, oNow, oConfigured, oReply, oParsed, oFunc, oParams,
              oCall, oStatus, oDados, oTrace, oOutcome, oProviders>>
chatVars == <<cInput, cUi, cMsg, cHistory, cDisplay, cStatus, cWorkers>>
providerVars == <<gProvider, gRequest, gOutcome, gPc, gVendor>>
validatorVars == <<vCommand, vLevel, vResult, vPc>>
sanitizerVars == <<sCommand, sSanitized, sAgain, sScore, sPc>>
templateVars == <<tCall, tOutcome, tPc>>
conversationVars == <<kActive, kClock, kNext, kCall, kBefore, kAdds, kCreates>>

-----------------------------------------------------------------------------
(* Strings *)

Chr(s, i) == SubSeq(s, i, i)

UpperChars == "ABCDEFGHIJKLMNOPQRSTUVWXYZ"
LowerChars == "abcdefghijklmnopqrstuvwxyz"
DigitChars == "0123456789"
SpaceChars == {" ", "\t", "\n"}

CharSet(s) == {Chr(s, i) : i \in 1..Len(s)}

\* str.lower() on one character
CharLower(c) ==
    IF c \in CharSet(UpperChars)
    THEN Chr(LowerChars, CHOOSE k \in 1..Len(UpperChars) : Chr(UpperChars, k) = c)
    ELSE c

\* the strings f[a], ..., f[b] joined, by halves
RECURSIVE Joined(_, _, _)
Joined(f, a, b) ==
    IF a > b THEN ""
    ELSE IF a = b THEN f[a]
    ELSE LET m == (a + b) \div 2 IN Joined(f, a, m) \o Joined(f, m + 1, b)

\* str.lower()
StrLower(s) == Joined([i \in 1..Len(s) |-> CharLower(Chr(s, i))], 1, Len(s))

\* str.strip(): leading and trailing whitespace removed
RECURSIVE LStrip(_)
LStrip(s) == IF s # "" /\ Head(s) \in SpaceChars THEN LStrip(Tail(s)) ELSE s

RECURSIVE RStrip(_)
RStrip(s) ==
    IF s # "" /\ Chr(s, Len(s)) \in SpaceChars
    THEN RStrip(SubSeq(s, 1, Len(s) - 1))
    ELSE s

StrStrip(s) == RStrip(LStrip(s))

\* Python's `kw in text`
Contains(text, kw) ==
    \E i \in 1..(Len(text) - Len(kw) + 1) : SubSeq(text, i, i + Len(kw) - 1) = kw

-----------------------------------------------------------------------------
(* Regular expressions, as Python's re module matches them: a backtracking *)
(* matcher whose alternatives are tried in priority order (alternation     *)
(* left to right, quantifiers greedy).  Ends(r, txt, i) is the sequence of *)
(* positions at which a match of r that starts at position i can end, in   *)
(* the order the backtracking matcher tries them; its head is the match    *)
(* Python reports.                                                         *)

Lit(s)  == [t |-> "lit", s |-> s]
Cls(cs) == [t |-> "cls", c |-> cs]
NCls(cs) == [t |-> "ncls", c |-> cs]     \* [^...]
LazyAll == [t |-> "lazyall"]             \* .*? where the dot matches every character
WordEdge == [t |-> "edge"]               \* \b
AnyCh   == [t |-> "any"]
Cat(rs) == [t |-> "cat", rs |-> rs]
Alt(rs) == [t |-> "alt", rs |-> rs]
Opt(r)  == [t |-> "opt", r |-> r]
Star(r) == [t |-> "star", r |-> r]
Plus(r) == Cat(<<r, Star(r)>>)

\* whether the one-character expression c matches the character at position i
MatchesAt(c, txt, i) ==
    /\ i <= Len(txt)
    /\ IF c.t = "cls" THEN Chr(txt, i) \in c.c
       ELSE IF c.t = "ncls" THEN Chr(txt, i) \notin c.c
       ELSE Chr(txt, i) # "\n"

\* \w on lower-case text
WordChars == CharSet(LowerChars) \cup CharSet(DigitChars) \cup {"_"}

\* \b: exactly one of the characters before and at position i is a word character
IsWordEdge(txt, i) ==
    (i > 1 /\ Chr(txt, i - 1) \in WordChars) # (i <= Len(txt) /\ Chr(txt, i) \in WordChars)

\* greedy c* for a one-character expression c: the run of matching characters
\* from i ends right before RunStop, and the matcher gives back one character
\* at a time
RunStop(c, txt, i) ==
    CHOOSE p \in i..(Len(txt) + 1) :
        /\ ~MatchesAt(c, txt, p)
        /\ \A q \in i..(p - 1) : MatchesAt(c, txt, q)

EndsRun(c, txt, i) ==
    LET stop == RunStop(c, txt, i)
    IN [k \in 1..(stop - i + 1) |-> stop - k + 1]

RECURSIVE Ends(_, _, _)
RECURSIVE EndsFrom(_, _, _)
RECURSIVE EndsCat(_, _, _, _)
RECURSIVE EndsAlt(_, _, _, _)
RECURSIVE EndsStar(_, _, _, _)

\* the ends of r from each start of a sequence of starts, in order
EndsFrom(r, txt, starts) ==
    IF starts = <<>> THEN <<>>
    ELSE Ends(r, txt, Head(starts)) \o EndsFrom(r, txt, Tail(starts))

EndsCat(rs, k, txt, starts) ==
    IF k > Len(rs) \/ starts = <<>> THEN starts
    ELSE EndsCat(rs, k + 1, txt, EndsFrom(rs[k], txt, starts))

EndsAlt(rs, k, txt, i) ==
    IF k > Len(rs) THEN <<>>
    ELSE Ends(rs[k], txt, i) \o EndsAlt(rs, k + 1, txt, i)

\* greedy r*: after each way r matches (it must consume), r* again
EndsStar(star, txt, i, js) ==
    IF js = <<>> THEN <<>>
    ELSE (IF Head(js) > i THEN Ends(star, txt, Head(js)) ELSE <<>>)
         \o EndsStar(star, txt, i, Tail(js))

Ends(r, txt, i) ==
    CASE r.t = "lit" ->
            IF i + Len(r.s) - 1 <= Len(txt) /\ SubSeq(txt, i, i + Len(r.s) - 1) = r.s
            THEN <<i + Len(r.s)>> ELSE <<>>
      [] r.t = "cls" ->
            IF i <= Len(txt) /\ Chr(txt, i) \in r.c THEN <<i + 1>> ELSE <<>>
      [] r.t = "ncls" ->
            IF i <= Len(txt) /\ Chr(txt, i) \notin r.c THEN <<i + 1>> ELSE <<>>
      [] r.t = "any" ->
            IF i <= Len(txt) /\ Chr(txt, i) # "\n" THEN <<i + 1>> ELSE <<>>
      [] r.t = "edge" -> IF IsWordEdge(txt, i) THEN <<i>> ELSE <<>>
      [] r.t = "lazyall" -> [k \in 1..(Len(txt) - i + 2) |-> i + k - 1]
      [] r.t = "cat" -> EndsCat(r.rs, 1, txt, <<i>>)
      [] r.t = "alt" -> EndsAlt(r.rs, 1, txt, i)
      [] r.t = "opt" -> Ends(r.r, txt, i) \o <<i>>
      [] r.t = "star" ->
            IF r.r.t \in {"cls", "ncls", "any"} THEN EndsRun(r.r, txt, i)
            ELSE EndsStar(r, txt, i, Ends(r.r, txt, i)) \o <<i>>

NoMatch == [found |-> FALSE, start |-> 0, end |-> 0]

\* re.search: the leftmost start that has a match, and that start's first end
SearchFrom(r, txt, i) ==
    IF \E j \in i..(Len(txt) + 1) : Ends(r, txt, j) # <<>>
    THEN LET s == CHOOSE j \in i..(Len(txt) + 1) :
                      /\ Ends(r, txt, j) # <<>>
                      /\ \A k \in i..(j - 1) : Ends(r, txt, k) = <<>>
         IN [found |-> TRUE, start |-> s, end |-> Head(Ends(r, txt, s))]
    ELSE NoMatch

\* re.search(pattern, text, re.IGNORECASE); the patterns are written in lower case
ReSearch(r, txt) == SearchFrom(r, StrLower(txt), 1)

\* match.group(0)
Group0(txt, m) == SubSeq(txt, m.start, m.end - 1)

-----------------------------------------------------------------------------
(* CommandParser: the pattern table of __init__, in the order of the dict  *)

Ws1 == Plus(Cls(SpaceChars))          \* \s+
Ws0 == Star(Cls(SpaceChars))          \* \s*
Digits1 == Plus(Cls(CharSet(DigitChars)))   \* \d+
Words(ws) == Alt([k \in 1..Len(ws) |-> Lit(ws[k])])   \* (?:a|b|c)
Plural(w) == Cat(<<Lit(w), Opt(Lit("s"))>>)           \* ws?
TailGroup == Plus(AnyCh)                              \* (.+)

\* a pattern: `pre` followed, when hasGrp, by the capture group `grp`
Pat(pre) == [pre |-> pre, hasGrp |-> FALSE, grp |-> Lit("")]
PatG(pre, grp) == [pre |-> pre, hasGrp |-> TRUE, grp |-> grp]
PatRe(p) == IF p.hasGrp THEN Cat(<<p.pre, p.grp>>) ELSE p.pre

EnVerbs == Words(<<"list", "show", "get", "display">>)
EnViewVerbs == Words(<<"get", "show", "display", "view">>)
PtViewVerbs == Words(<<"mostre", "veja", "exiba">>)
Boards == Alt(<<Plural("board"), Plural("quadro")>>)
Existing == Words(<<"disponíveis", "existentes">>)
ItemNumber == Alt(<<Cat(<<Opt(Lit("#")), Digits1>>), Digits1>>)  \* (?:#?(\d+)|(\d+))

ListBoardsPatterns == <<
    Pat(Cat(<<EnVerbs, Ws1, Opt(Cat(<<Lit("all"), Ws1>>)),
              Alt(<<Plural("board"), Lit("kanban")>>)>>)),
    Pat(Cat(<<Words(<<"quais", "quais são", "mostre", "liste">>), Ws1,
              Opt(Cat(<<Lit("os"), Ws1>>)), Boards>>)),
    Pat(Cat(<<Boards, Ws1, Existing>>)) >>

ListWorkItemsPatterns == <<
    Pat(Cat(<<EnVerbs, Ws1, Opt(Cat(<<Lit("all"), Ws1>>)),
              Alt(<<Cat(<<Lit("work"), Ws1, Plural("item")>>),
                    Cat(<<Lit("backlog"), Ws1, Plural("item")>>),
                    Plural("task")>>)>>)),
    Pat(Cat(<<EnVerbs, Ws1,
              Alt(<<Plural("bug"), Plural("feature"), Lit("pbi"),
                    Cat(<<Lit("product"), Ws1, Lit("backlog"), Ws1, Plural("item")>>)>>)>>)),
    Pat(Cat(<<Words(<<"quais", "quais são", "mostre", "liste", "listar", "exibir",
                      "exiba", "mostrar", "mostra", "me mostre", "me liste">>), Ws1,
              Opt(Cat(<<Lit("os"), Ws1>>)),
              Alt(<<Cat(<<Lit("iten"), Opt(Lit("s"))>>), Plural("tarefa"), Plural("bug"),
                    Plural("feature"), Cat(<<Lit("work"), Ws0, Plural("item")>>),
                    Cat(<<Lit("backlog"), Ws0, Plural("item")>>)>>)>>)),
    Pat(Cat(<<Alt(<<Lit("backlog"), Cat(<<Lit("iten"), Opt(Lit("s"))>>),
                    Cat(<<Lit("work"), Ws0, Plural("item")>>)>>), Ws1, Existing>>)),
    Pat(Cat(<<Words(<<"mostrar", "exibir", "exiba", "exibir", "mostra", "me mostre",
                      "me liste">>), Ws1, Opt(Cat(<<Lit("os"), Ws1>>)),
              Alt(<<Cat(<<Lit("work"), Ws0, Plural("item")>>),
                    Cat(<<Lit("iten"), Opt(Lit("s"))>>), Plural("tarefa")>>)>>)) >>

GetWorkItemPatterns == <<
    Pat(Cat(<<EnViewVerbs, Ws1,
              Alt(<<Cat(<<Lit("work"), Ws1, Lit("item")>>), Lit("item"), Lit("task")>>),
              Ws1, ItemNumber>>)),
    Pat(Cat(<<PtViewVerbs, Ws1, Opt(Cat(<<Lit("o"), Ws1>>)),
              Words(<<"item", "tarefa">>), Ws1, ItemNumber>>)),
    Pat(Cat(<<Words(<<"item", "tarefa">>), Ws1, ItemNumber>>)) >>

SearchWorkItemsPatterns == <<
    PatG(Cat(<<Alt(<<Lit("search"), Lit("find"), Cat(<<Lit("look"), Ws1, Lit("for")>>)>>),
               Ws1,
               Alt(<<Cat(<<Lit("work"), Ws1, Plural("item")>>), Plural("item"),
                     Plural("task")>>),
               Ws1, Words(<<"with", "containing", "about">>), Ws1>>), TailGroup),
    PatG(Cat(<<Words(<<"busque", "procure", "encontre">>), Ws1,
               Alt(<<Cat(<<Lit("iten"), Opt(Lit("s"))>>), Plural("tarefa")>>), Ws1,
               Alt(<<Lit("com"), Lit("sobre"),
                     Cat(<<Lit("relacionados"), Ws1, Lit("a")>>)>>), Ws1>>), TailGroup),
    PatG(Cat(<<Words(<<"search", "find">>), Ws1>>), TailGroup) >>

GetBoardPatterns == <<
    PatG(Cat(<<EnViewVerbs, Ws1, Words(<<"board", "kanban">>), Ws1>>), TailGroup),
    PatG(Cat(<<PtViewVerbs, Ws1, Opt(Cat(<<Lit("o"), Ws1>>)),
               Words(<<"board", "quadro">>), Ws1>>), TailGroup),
    PatG(Cat(<<Words(<<"board", "quadro">>), Ws1>>), TailGroup) >>

HelpPatterns == <<
    Pat(Words(<<"help", "ajuda", "socorro">>)),
    Pat(Alt(<<Cat(<<Lit("what"), Ws1, Lit("can"), Ws1, Lit("you"), Ws1, Lit("do")>>),
              Cat(<<Lit("o"), Ws1, Lit("que"), Ws1, Lit("você"), Ws1, Lit("pode"), Ws1,
                    Lit("fazer")>>)>>)),
    Pat(Alt(<<Plural("command"), Plural("comando")>>)) >>

\* self.patterns: a dict iterates in insertion order
patterns == <<
    [intent |-> "LIST_BOARDS",       pats |-> ListBoardsPatterns],
    [intent |-> "LIST_WORK_ITEMS",   pats |-> ListWorkItemsPatterns],
    [intent |-> "GET_WORK_ITEM",     pats |-> GetWorkItemPatterns],
    [intent |-> "SEARCH_WORK_ITEMS", pats |-> SearchWorkItemsPatterns],
    [intent |-> "GET_BOARD",         pats |-> GetBoardPatterns],
    [intent |-> "HELP",              pats |-> HelpPatterns] >>

-----------------------------------------------------------------------------
(* CommandParser: parameter extractors, confidence, parse *)

EmptyMap == [k \in {} |-> ""]

DigitVal(c) == (CHOOSE k \in 1..10 : Chr(DigitChars, k) = c) - 1

RECURSIVE ParseInt(_, _)
ParseInt(ds, acc) ==
    IF ds = "" THEN acc ELSE ParseInt(Tail(ds), 10 * acc + DigitVal(Head(ds)))

\* an exception in place of a value
PyRaise(exc) == [raise |-> exc]
IsRaise(x) == DOMAIN x = {"raise"}

\* int(str) refuses a decimal string of more digits than the interpreter's
\* limit (sys.int_info.default_max_str_digits) with ValueError
IntMaxStrDigits == 4300
IntRaises(ds) == Len(ds) > IntMaxStrDigits

\* the text of a pattern's capture group in the match m of PatRe(p): the
\* matcher enters the group at the first end of `pre` from which `grp` matches
GroupStart(p, txt, m) ==
    LET es == Ends(p.pre, txt, m.start)
        k  == CHOOSE k \in 1..Len(es) :
                 /\ Ends(p.grp, txt, es[k]) # <<>>
                 /\ \A j \in 1..(k - 1) : Ends(p.grp, txt, es[j]) = <<>>
    IN es[k]

Group1(p, txt, m) == SubSeq(txt, GroupStart(p, StrLower(txt), m), m.end - 1)

\* re.findall(r'\d+', text)[0] as an int
_extract_work_item_id(text, p, m) ==
    LET d == ReSearch(Digits1, text)
    IN IF ~d.found THEN EmptyMap
       ELSE IF IntRaises(Group0(text, d)) THEN PyRaise("ValueError")
       ELSE ("work_item_id" :> ParseInt(Group0(text, d), 0))

SearchKeywords == <<"search", "find", "busque", "procure", "encontre">>

\* text.split(keyword, 1)[1].strip() for the first keyword of the list in the text
RECURSIVE AfterKeyword(_, _)
AfterKeyword(text, k) ==
    IF k > Len(SearchKeywords) THEN EmptyMap
    ELSE IF Contains(text, SearchKeywords[k])
         THEN LET m == SearchFrom(Lit(SearchKeywords[k]), text, 1)
              IN ("search_terms" :> StrStrip(SubSeq(text, m.end, Len(text))))
         ELSE AfterKeyword(text, k + 1)

_extract_search_terms(text, p, m) ==
    IF p.hasGrp THEN ("search_terms" :> StrStrip(Group1(p, text, m)))
    ELSE AfterKeyword(text, 1)

_extract_board_name(text, p, m) ==
    IF p.hasGrp THEN ("board_name" :> StrStrip(Group1(p, text, m))) ELSE EmptyMap

StatePatterns == << <<"new", "New">>, <<"active", "Active">>, <<"resolved", "Resolved">>,
                    <<"closed", "Closed">>, <<"removed", "Removed">> >>

AssignedPattern ==
    PatG(Cat(<<Alt(<<Cat(<<Lit("assigned"), Ws1, Lit("to")>>),
                     Cat(<<Lit("atribuído"), Ws1, Lit("para")>>)>>), Ws1>>),
         Plus(Cls(CharSet(LowerChars) \cup CharSet(UpperChars) \cup SpaceChars)))

_extract_work_item_filters(text, p, m) ==
    LET types ==
            IF Contains(text, "bug") THEN ("types" :> <<"Bug">>)
            ELSE IF Contains(text, "feature") THEN ("types" :> <<"Feature">>)
            ELSE IF Contains(text, "pbi") \/ Contains(text, "product backlog item")
                 THEN ("types" :> <<"Product Backlog Item">>)
            ELSE EmptyMap
        hits == {k \in 1..Len(StatePatterns) : Contains(text, StatePatterns[k][1])}
        state ==
            IF hits = {} THEN EmptyMap
            ELSE ("state" :> StatePatterns[CHOOSE k \in hits : \A j \in hits : k <= j][2])
        am == ReSearch(PatRe(AssignedPattern), text)
        assigned ==
            IF am.found
            THEN ("assigned_to" :> StrStrip(Group1(AssignedPattern, text, am)))
            ELSE EmptyMap
    IN types @@ state @@ assigned

\* self.parameter_extractors[command_type](text, match), {} for the other intents
ExtractParameters(intent, text, p, m) ==
    CASE intent = "GET_WORK_ITEM"     -> _extract_work_item_id(text, p, m)
      [] intent = "SEARCH_WORK_ITEMS" -> _extract_search_terms(text, p, m)
      [] intent = "GET_BOARD"         -> _extract_board_name(text, p, m)
      [] intent = "LIST_WORK_ITEMS"   -> _extract_work_item_filters(text, p, m)
      [] OTHER -> EmptyMap

SpecificKeywords == <<"board", "work item", "bug", "feature", "search", "find">>

\* A confidence is the exact rational n/d (d > 0).
Conf(n, d) == [n |-> n, d |-> d]

\* the score without the keyword bonus
ConfidenceWithoutKeywords(text, p, m) ==
    LET L     == Len(text)
        mlen  == m.end - m.start
        exact == StrLower(Group0(text, m)) = StrLower(text)
        d     == IF L > 0 THEN 10 * L ELSE 10
        unit  == IF L > 0 THEN L ELSE 1
        n     == 5 * unit + (IF exact THEN 3 * unit ELSE 0)
                 + (IF L > 0 THEN 2 * mlen ELSE 0)
    IN Conf(IF n < d THEN n ELSE d, d)

_calculate_confidence(text, p, m) ==
    LET L     == Len(text)
        mlen  == m.end - m.start
        exact == StrLower(Group0(text, m)) = StrLower(text)
        kws   == Cardinality({k \in 1..Len(SpecificKeywords) :
                                 Contains(text, SpecificKeywords[k])})
        d     == IF L > 0 THEN 10 * L ELSE 10
        unit  == IF L > 0 THEN L ELSE 1
        n     == 5 * unit + (IF exact THEN 3 * unit ELSE 0)
                 + (IF L > 0 THEN 2 * mlen ELSE 0) + kws * unit
    IN Conf(IF n < d THEN n ELSE d, d)

ParsedCommand(ct, params, conf, text) ==
    [command_type |-> ct, parameters |-> params, confidence |-> conf,
     original_text |-> text]

\* the value of a result variable before the call
NoResult == ParsedCommand("NONE", EmptyMap, Conf(0, 1), "")

\* parse without the early return: the loops run on and the last match wins
RECURSIVE ParseLastMatch(_, _, _)
ParseLastMatch(text, ti, pi) ==
    IF ti > Len(patterns)
    THEN ParsedCommand("UNKNOWN", EmptyMap, Conf(0, 1), text)
    ELSE IF pi > Len(patterns[ti].pats) THEN ParseLastMatch(text, ti + 1, 1)
    ELSE LET p == patterns[ti].pats[pi]
             m == ReSearch(PatRe(p), text)
             later == ParseLastMatch(text, ti, pi + 1)
         IN IF later.command_type = "UNKNOWN" /\ m.found
            THEN ParsedCommand(patterns[ti].intent,
                               ExtractParameters(patterns[ti].intent, text, p, m),
                               _calculate_confidence(text, p, m), text)
            ELSE later

\* the two nested loops of parse over the normalised text, from pattern pi of
\* table entry ti on; the first match returns
RECURSIVE ParseFrom(_, _, _)
ParseFrom(text, ti, pi) ==
    IF ti > Len(patterns)
    THEN ParsedCommand("UNKNOWN", EmptyMap, Conf(0, 1), text)
    ELSE IF pi > Len(patterns[ti].pats) THEN ParseFrom(text, ti + 1, 1)
    ELSE LET p == patterns[ti].pats[pi]
             m == ReSearch(PatRe(p), text)
             ps == ExtractParameters(patterns[ti].intent, text, p, m)
         IN IF m.found
            THEN IF IsRaise(ps) THEN ps
                 ELSE ParsedCommand(patterns[ti].intent, ps,
                                    _calculate_confidence(text, p, m), text)
            ELSE ParseFrom(text, ti, pi + 1)

\* CommandParser.parse: the ParsedCommand returned, or the exception raised
parse(text) == ParseFrom(StrLower(StrStrip(text)), 1, 1)

-----------------------------------------------------------------------------
(* JSON values, and json.loads on the subset of JSON the replies use:      *)
(* objects, arrays, strings with the escapes \" \\ \/ \n \t, integers,     *)
(* true, false, null.                                                      *)

JNull   == [k |-> "null"]
JBool(b) == [k |-> "bool", b |-> b]
JNum(n) == [k |-> "num", n |-> n]
JStr(x) == [k |-> "str", s |-> x]
JArr(a) == [k |-> "arr", a |-> a]
JObj(o) == [k |-> "obj", o |-> o]

\* the character at position i, "" past the end
At(s, i) == IF i >= 1 /\ i <= Len(s) THEN Chr(s, i) ELSE ""

JsonSpace == {" ", "\t", "\n", "\r"}

RECURSIVE SkipWs(_, _)
SkipWs(s, i) == IF At(s, i) \in JsonSpace THEN SkipWs(s, i + 1) ELSE i

JFail == [ok |-> FALSE, v |-> JNull, next |-> 0]
JOk(v, n) == [ok |-> TRUE, v |-> v, next |-> n]

\* the characters of a string literal from position i (after the opening quote)
\* the number of backslashes that end right before position j, counted from
\* position i on
BackslashRun(s, i, j) ==
    CHOOSE k \in 0..(j - i) :
        /\ \A m \in 1..k : Chr(s, j - m) = "\\"
        /\ k = j - i \/ Chr(s, j - k - 1) # "\\"

\* position j is not the second character of an escape
StartsUnit(s, i, j) == BackslashRun(s, i, j) % 2 = 0

EscapeChars == {"\"", "\\", "/", "n", "t"}

Unescape(e) == CASE e = "n" -> "\n" [] e = "t" -> "\t" [] OTHER -> e

\* the string whose opening quote is right before position i: it runs to the
\* first quote no backslash escapes, holds no control character, and its
\* escapes are decoded
ScanString(s, i) ==
    LET closing == {j \in i..Len(s) : Chr(s, j) = "\"" /\ StartsUnit(s, i, j)} IN
    IF closing = {} THEN JFail
    ELSE LET e == CHOOSE j \in closing : \A k \in closing : j <= k
             units == {j \in i..(e - 1) : StartsUnit(s, i, j)}
             text == [j \in i..(e - 1) |->
                         IF j \notin units THEN ""
                         ELSE IF Chr(s, j) = "\\" THEN Unescape(Chr(s, j + 1))
                         ELSE Chr(s, j)]
         IN IF \E j \in units :
                  \/ Chr(s, j) \in {"\n", "\t", "\r"}
                  \/ Chr(s, j) = "\\" /\ Chr(s, j + 1) \notin EscapeChars
            THEN JFail
            ELSE JOk(JStr(Joined(text, i, e - 1)), e + 1)

RECURSIVE ScanDigits(_, _)
ScanDigits(s, i) == IF At(s, i) \in CharSet(DigitChars) THEN ScanDigits(s, i + 1) ELSE i

\* an integer literal at position i: -?(0|[1-9][0-9]*)
ScanNumber(s, i) ==
    LET neg == At(s, i) = "-"
        b   == IF neg THEN i + 1 ELSE i
        e   == ScanDigits(s, b)
    IN IF e = b THEN JFail
       ELSE IF At(s, b) = "0"
            THEN JOk(JNum(0), b + 1)
            ELSE JOk(JNum((IF neg THEN -1 ELSE 1) * ParseInt(SubSeq(s, b, e - 1), 0)), e)

StartsAt(s, i, w) == i + Len(w) - 1 <= Len(s) /\ SubSeq(s, i, i + Len(w) - 1) = w

RECURSIVE ScanValue(_, _)
RECURSIVE ScanMembers(_, _, _)
RECURSIVE ScanElements(_, _, _)

\* the members of an object from the key at position i on; a repeated key
\* keeps its last value
ScanMembers(s, i, acc) ==
    IF At(s, i) # "\"" THEN JFail
    ELSE LET key == ScanString(s, i + 1) IN
         IF ~key.ok THEN JFail
         ELSE LET c == SkipWs(s, key.next) IN
              IF At(s, c) # ":" THEN JFail
              ELSE LET val == ScanValue(s, SkipWs(s, c + 1)) IN
                   IF ~val.ok THEN JFail
                   ELSE LET e    == SkipWs(s, val.next)
                            acc2 == (key.v.s :> val.v) @@ acc
                        IN IF At(s, e) = "," THEN ScanMembers(s, SkipWs(s, e + 1), acc2)
                           ELSE IF At(s, e) = "}" THEN JOk(JObj(acc2), e + 1)
                           ELSE JFail

ScanElements(s, i, acc) ==
    LET val == ScanValue(s, i) IN
    IF ~val.ok THEN JFail
    ELSE LET e == SkipWs(s, val.next) IN
         IF At(s, e) = "," THEN ScanElements(s, SkipWs(s, e + 1), Append(acc, val.v))
         ELSE IF At(s, e) = "]" THEN JOk(JArr(Append(acc, val.v)), e + 1)
         ELSE JFail

ScanValue(s, i) ==
    LET c == At(s, i) IN
    IF c = "{"
    THEN (IF At(s, SkipWs(s, i + 1)) = "}"
          THEN JOk(JObj(EmptyMap), SkipWs(s, i + 1) + 1)
          ELSE ScanMembers(s, SkipWs(s, i + 1), EmptyMap))
    ELSE IF c = "["
    THEN (IF At(s, SkipWs(s, i + 1)) = "]"
          THEN JOk(JArr(<<>>), SkipWs(s, i + 1) + 1)
          ELSE ScanElements(s, SkipWs(s, i + 1), <<>>))
    ELSE IF c = "\"" THEN ScanString(s, i + 1)
    ELSE IF c = "-" \/ c \in CharSet(DigitChars) THEN ScanNumber(s, i)
    ELSE IF StartsAt(s, i, "true") THEN JOk(JBool(TRUE), i + 4)
    ELSE IF StartsAt(s, i, "false") THEN JOk(JBool(FALSE), i + 5)
    ELSE IF StartsAt(s, i, "null") THEN JOk(JNull, i + 4)
    ELSE JFail

\* json.loads: one value, white space around it, nothing after it; ok is
\* FALSE where json.loads raises JSONDecodeError
json_loads(s) ==
    LET r == ScanValue(s, SkipWs(s, 1)) IN
    IF r.ok /\ SkipWs(s, r.next) = Len(s) + 1 THEN r ELSE JFail

-----------------------------------------------------------------------------
(* CommandLLMParser.parse: the provider's reply is decoded, and kept as a  *)
(* direct response when it does not decode.                                *)

Returned(v) == [raised |-> FALSE, exc |-> "", v |-> v]
Raised(exc) == [raised |-> TRUE, exc |-> exc, v |-> JNull]

\* parse without the except clause: the decoding error reaches the caller
LLMParseNoFallback(resposta) ==
    LET r == json_loads(resposta)
    IN IF r.ok THEN Returned(r.v) ELSE Raised("JSONDecodeError")

\* the try / except of CommandLLMParser.parse on the reply's content
LLMParse(resposta) ==
    LET r == json_loads(resposta)
    IN IF r.ok THEN Returned(r.v)
       ELSE Returned(JObj("direct_response" :> JStr(resposta)))

\* replies of the model: function calls, direct responses, other JSON, other text
FunctionReplies == {
    "{\"function\":\"listar_boards\",\"parameters\":{}}",
    "{\"function\": \"listar_work_items\", \"parameters\": {\"tipo\": \"Bug\", \"modificado_em\": \"hoje\"}}",
    "{\"function\": \"listar_work_items\", \"parameters\": {\"criado_em\": \"ONTEM\"}}",
    "{\"function\": \"listar_work_items\", \"parameters\": {\"tipo\": \"Task\", \"modificado_em\": \"2024-06-01\"}}",
    "{\"function\": \"listar_work_items\", \"parameters\": {\"tipo\": \"Bug\", \"estado\": \"Active\"}}",
    "{\"function\": \"listar_work_items\", \"parameters\": {\"estado\": \"Active\"}}",
    "{\"function\": \"listar_work_items\", \"parameters\": {\"ordenar_por\": \"prazo\", \"limite\": 1}}",
    "{\"function\": \"listar_work_items\", \"parameters\": {}}",
    "{\"function\": \"listar_work_items\", \"parameters\": {\"data_modificacao\": \"2024-06-01\", \"modificado_em\": \"hoje\"}}",
    "{\"function\": \"listar_work_items\", \"parameters\": {\"data_criacao\": \"Hoje\"}}",
    "{\"function\": \"listar_work_items\", \"parameters\": {\"criado_em\": 20240601}}",
    "{\"function\": \"listar_work_items\", \"parameters\": null}",
    "{\"function\": \"listar_work_items\"}",
    "{\"function\": \"buscar_work_item\", \"parameters\": {\"modificado_em\": \"Ontem\", \"tipo\": \"Bug\"}}",
    "{\"function\": \"buscar_work_item\", \"parameters\": {\"termo\": \"login\"}}",
    "{\"function\": \"buscar_work_item\", \"parameters\": {\"termo_busca\": \"login\"}}",
    "{\"function\": \"buscar_work_item\", \"parameters\": {\"id\": 123}}",
    "{\"function\": \"buscar_work_item\", \"parameters\": {}}",
    "{\"function\": \"mostrar_work_item\", \"parameters\": {\"id\": 123}}",
    "{\"function\": \"mostrar_work_item\", \"parameters\": {\"id\": 999}}",
    "{\"function\": \"mostrar_work_item\", \"parameters\": {\"work_item_id\": 999}}",
    "{\"function\": \"mostrar_work_item\", \"parameters\": {}}",
    "{\"function\": \"mostrar_work_item\", \"parameters\": [\"id\"]}",
    "{\"function\": \"mostrar_board\", \"parameters\": {\"nome\": \"Sprint\"}}",
    "{\"function\": \"help\", \"parameters\": {}}",
    "{\"function\": \"apagar_tudo\", \"parameters\": {}}" }

DirectReplies == {
    "{\"direct_response\": \"Posso te ajudar a consultar boards e work items.\"}",
    "  {\"direct_response\":\"Um board \\\"Kanban\\\" organiza o trabalho.\"}\n",
    "{\"direct_response\": 7}" }

OtherJsonReplies == { "{}", "[1, 2]", "42", "\"listar_boards\"", "null",
                      "[\"function\"]", "{\"resposta\": \"ok\"}" }

NonJsonReplies == {
    "Claro! Aqui estão os boards.",
    "Resposta:\n{\"function\":\"listar_boards\",\"parameters\":{}}\n",
    "{\"function\":\"listar_boards\",\"parameters\":{}",
    "{'function': 'listar_boards'}",
    "{\"function\":\"listar_boards\",\"parameters\":{}} Espero ter ajudado!",
    "" }

Replies == FunctionReplies \cup DirectReplies \cup OtherJsonReplies \cup NonJsonReplies

-----------------------------------------------------------------------------
(* Python's operators on decoded JSON values *)

\* `key in x`: "true", "false", or "raise" (TypeError: x is not a container)
PyIn(key, x) ==
    CASE x.k = "obj" -> IF key \in DOMAIN x.o THEN "true" ELSE "false"
      [] x.k = "arr" -> IF \E i \in 1..Len(x.a) : x.a[i].k = "str" /\ x.a[i].s = key
                        THEN "true" ELSE "false"
      [] x.k = "str" -> IF Contains(x.s, key) THEN "true" ELSE "false"
      [] OTHER -> "raise"

\* dict.get(key), None when absent
Get(o, key) == IF key \in DOMAIN o THEN o[key] ELSE JNull

\* the truth value of x
Truthy(x) ==
    CASE x.k = "null" -> FALSE
      [] x.k = "bool" -> x.b
      [] x.k = "num"  -> x.n # 0
      [] x.k = "str"  -> x.s # ""
      [] x.k = "arr"  -> x.a # <<>>
      [] x.k = "obj"  -> DOMAIN x.o # {}

\* x == 'name'
IsName(x, name) == x.k = "str" /\ x.s = name

-----------------------------------------------------------------------------
(* Dates: datetime.now(), timedelta(days=1), strftime('%Y-%m-%d') *)

Date(y, m, d) == [y |-> y, m |-> m, d |-> d]

IsLeap(y) == (y % 4 = 0 /\ y % 100 # 0) \/ y % 400 = 0

DaysIn(y, m) ==
    IF m = 2 THEN (IF IsLeap(y) THEN 29 ELSE 28)
    ELSE IF m \in {4, 6, 9, 11} THEN 30 ELSE 31

\* now - timedelta(days=1)
DayBefore(dt) ==
    IF dt.d > 1 THEN Date(dt.y, dt.m, dt.d - 1)
    ELSE IF dt.m > 1 THEN Date(dt.y, dt.m - 1, DaysIn(dt.y, dt.m - 1))
    ELSE Date(dt.y - 1, 12, 31)

RECURSIVE IntToStr(_)
IntToStr(n) ==
    IF n < 10 THEN Chr(DigitChars, n + 1)
    ELSE IntToStr(n \div 10) \o Chr(DigitChars, (n % 10) + 1)

RECURSIVE ZeroPad(_, _)
ZeroPad(x, w) == IF Len(x) < w THEN ZeroPad("0" \o x, w) ELSE x

\* strftime('%Y-%m-%d')
FormatDate(dt) ==
    ZeroPad(IntToStr(dt.y), 4) \o "-" \o ZeroPad(IntToStr(dt.m), 2) \o "-"
    \o ZeroPad(IntToStr(dt.d), 2)

\* the clock readings of the model: a leap day, a year's and a month's first day
Dates == {Date(2024, 3, 1), Date(2023, 3, 1), Date(2024, 1, 1), Date(2024, 6, 15)}

-----------------------------------------------------------------------------
(* AppController.process_message: routing of the parsed reply *)

FallbackText == "Desculpe, não consegui entender sua solicitação. Tente reformular a pergunta."

RouteReturn(v)  == [kind |-> "return", exc |-> "", v |-> v, func |-> JNull, params |-> JNull]
RouteRaise(exc) == [kind |-> "raise", exc |-> exc, v |-> JNull, func |-> JNull, params |-> JNull]
RouteFunction(f, ps) ==
    [kind |-> "function", exc |-> "", v |-> JNull, func |-> f, params |-> ps]

\* `if 'direct_response' in parsed` ... `if 'function' in parsed` ... fallback
Route(parsed) ==
    LET d == PyIn("direct_response", parsed) IN
    IF d = "raise" THEN RouteRaise("TypeError")
    ELSE IF d = "true"
         THEN (IF parsed.k = "obj" THEN RouteReturn(parsed.o["direct_response"])
               ELSE RouteRaise("TypeError"))
    ELSE IF PyIn("function", parsed) = "true"
         THEN (IF parsed.k = "obj"
               THEN RouteFunction(parsed.o["function"],
                                  IF "parameters" \in DOMAIN parsed.o
                                  THEN parsed.o["parameters"] ELSE JObj(EmptyMap))
               ELSE RouteRaise("TypeError"))
    ELSE RouteReturn(JStr(FallbackText))

-----------------------------------------------------------------------------
(* AppController.process_message: from func_name and params to the call    *)

filtros_aceitos == {"titulo", "descricao", "prioridade", "criado_em", "modificado_em",
                    "atribuido_para", "tipo"}

\* params[to] = params.pop(from), when `from` is a key
Rename(o, from, to) ==
    IF from \in DOMAIN o
    THEN [k \in (DOMAIN o \ {from}) \cup {to} |-> IF k = to THEN o[from] ELSE o[k]]
    ELSE o

\* the conversion of a relative date: 'hoje' and 'ontem', in any letter case
ConvertDate(valor, now) ==
    IF valor.k = "str" /\ StrLower(valor.s) = "hoje" THEN JStr(FormatDate(now))
    ELSE IF valor.k = "str" /\ StrLower(valor.s) = "ontem"
         THEN JStr(FormatDate(DayBefore(now)))
    ELSE valor

\* filtros_presentes: the accepted filters of params, after the renaming of the
\* date synonyms and the conversion of the relative dates
FiltrosPresentes(o, now) ==
    LET renamed == Rename(Rename(o, "data_modificacao", "modificado_em"),
                          "data_criacao", "criado_em")
    IN [k \in DOMAIN renamed \cap filtros_aceitos |->
           IF k \in {"criado_em", "modificado_em"} THEN ConvertDate(renamed[k], now)
           ELSE renamed[k]]

\* the exception of the filter code on params that are no dict
NotADictError(ps) ==
    IF ps.k \in {"null", "num", "bool"} THEN "TypeError"
    ELSE IF ps.k = "arr" /\ (PyIn("data_modificacao", ps) = "true"
                             \/ PyIn("data_criacao", ps) = "true")
         THEN "TypeError"
    ELSE "AttributeError"

Call(method, arg) == [method |-> method, arg |-> arg]
NoCall == Call("", JNull)

PlanCall(method, arg) == [kind |-> "call", exc |-> "", call |-> Call(method, arg)]
PlanNoData == [kind |-> "nodata", exc |-> "", call |-> NoCall]
PlanRaise(exc) == [kind |-> "raise", exc |-> exc, call |-> NoCall]

\* get_work_items(work_item_types=..., state=..., assigned_to=..., top=...)
GetWorkItemsArgs(o) ==
    JObj([k \in {"work_item_types", "state", "assigned_to", "top"} |->
            CASE k = "work_item_types" ->
                    IF Truthy(Get(o, "tipo")) THEN JArr(<<Get(o, "tipo")>>) ELSE JNull
              [] k = "state" -> Get(o, "estado")
              [] k = "assigned_to" -> Get(o, "atribuido_para")
              [] k = "top" -> IF "limite" \in DOMAIN o THEN o["limite"] ELSE JNum(100)])

\* params[key] after `key in params` was true
Subscript(ps, key, method) ==
    IF ps.k = "obj" THEN PlanCall(method, ps.o[key]) ELSE PlanRaise("TypeError")

PlanListar(ps, now) ==
    IF ps.k # "obj" THEN PlanRaise(NotADictError(ps))
    ELSE LET filtros == FiltrosPresentes(ps.o, now) IN
         IF DOMAIN filtros # {}
         THEN PlanCall("search_work_items_advanced", JObj(filtros))
         ELSE PlanCall("get_work_items", GetWorkItemsArgs(ps.o))

PlanBuscar(ps, now) ==
    IF ps.k # "obj" THEN PlanRaise(NotADictError(ps))
    ELSE LET filtros == FiltrosPresentes(ps.o, now) IN
         IF DOMAIN filtros # {}
         THEN PlanCall("search_work_items_advanced", JObj(filtros))
         ELSE IF "id" \in DOMAIN ps.o THEN PlanCall("get_work_item_by_id", ps.o["id"])
         ELSE IF "termo" \in DOMAIN ps.o THEN PlanCall("search_work_items", ps.o["termo"])
         ELSE IF "termo_busca" \in DOMAIN ps.o
              THEN PlanCall("search_work_items", ps.o["termo_busca"])
         ELSE IF "titulo" \in DOMAIN ps.o
              THEN PlanCall("search_work_items", ps.o["titulo"])
         ELSE PlanNoData

PlanMostrar(ps) ==
    IF PyIn("id", ps) = "raise" THEN PlanRaise("TypeError")
    ELSE IF PyIn("id", ps) = "true" THEN Subscript(ps, "id", "get_work_item_by_id")
    ELSE IF PyIn("work_item_id", ps) = "true"
         THEN Subscript(ps, "work_item_id", "get_work_item_by_id")
    ELSE PlanNoData

\* the if / elif chain on func_name
Plan(func, ps, now) ==
    IF IsName(func, "listar_work_items") THEN PlanListar(ps, now)
    ELSE IF IsName(func, "listar_boards") THEN PlanCall("get_boards", JNull)
    ELSE IF IsName(func, "buscar_work_item") THEN PlanBuscar(ps, now)
    ELSE IF IsName(func, "mostrar_work_item") THEN PlanMostrar(ps)
    ELSE PlanNoData

-----------------------------------------------------------------------------
(* AzureDevOpsService, as the orchestrator sees it *)

\* the public methods the class defines
ServiceMethods == {"test_connection", "validate_credentials", "get_boards",
                   "get_board_by_id", "get_work_items", "get_product_backlog_items",
                   "get_bugs", "get_features", "get_backlog_items",
                   "get_work_item_by_id", "get_work_item_details", "search_work_items",
                   "get_project_info"}

\* the work items of the project
ExistingIds == {123}

\* the largest number of records a list call returns in the model
MaxItems == 2

-----------------------------------------------------------------------------
(* AppController.process_user_message as a state machine *)

\* user messages
Messages == {"liste os boards", "mostre o work item 999", "bugs modificados hoje"}

\* final answers the provider gives to the summary prompt
SummaryTexts == {"Encontrei os itens pedidos.", "Nenhum item foi encontrado."}

\* how get_llm_provider and generate fail
LLMErrors == {"LLMProviderError", "ValueError", "KeyError"}

\* the provider objects a failed step has constructed: generate fails with
\* LLMProviderError on the provider get_llm_provider returned; ValueError and
\* KeyError leave get_llm_provider before a provider exists
Constructed(exc) == IF exc = "LLMProviderError" THEN 1 ELSE 0

\* a cycle of the model starts while fewer providers than this have been constructed
MaxProviders == 3

NoOutcome == [kind |-> "none", exc |-> "", v |-> JNull]
ReturnedOutcome(v) == [kind |-> "returned", exc |-> "", v |-> v]
RaisedOutcome(exc) == [kind |-> "raised", exc |-> exc, v |-> JNull]

\* the state between two cycles; oConfigured is fixed by the start-up
OrchIdle ==
    /\ oPc = "idle"
    /\ oMessage = ""
    /\ oNow = Date(2024, 1, 1)
    /\ oReply = <<>>
    /\ oParsed = JNull
    /\ oFunc = JNull
    /\ oParams = JNull
    /\ oCall = NoCall
    /\ oStatus = 0
    /\ oDados = -1
    /\ oTrace = <<>>
    /\ oOutcome = NoOutcome

\* the controller at rest while another component is looked at
OrchOff == OrchIdle /\ oConfigured = FALSE /\ oProviders = 0

OrchInit == OrchIdle /\ oConfigured \in BOOLEAN /\ oProviders = 0

\* the cycle ends: process_message returns v or lets exc escape
Finish(outcome) ==
    /\ oOutcome' = outcome
    /\ oPc' = "done"

\* ChatWidget.process_message calls process_user_message(message)
ReceiveMessage ==
    /\ oPc = "idle"
    /\ oProviders < MaxProviders
    /\ \E m \in Messages, d \in Dates :
          /\ oMessage' = m
          /\ oNow' = d
    /\ oPc' = "parsing"
    /\ UNCHANGED <<oConfigured, oProviders, oReply, oParsed, oFunc, oParams, oCall, oStatus,
                   oDados, oTrace, oOutcome>>
    /\ UNCHANGED <<parserVars, chatVars, providerVars, validatorVars, sanitizerVars,
                   templateVars, conversationVars>>

\* CommandLLMParser(), whose __init__ has get_llm_provider construct a provider,
\* and parse(message), the provider answering
LlmParseReturns ==
    /\ oPc = "parsing"
    /\ \E r \in Replies :
          LET res == LLMParse(r) IN
          /\ oReply' = <<r>>
          /\ oTrace' = Append(oTrace, "llm_parser.parse")
          /\ IF res.raised
             THEN Finish(RaisedOutcome(res.exc)) /\ UNCHANGED oParsed
             ELSE oParsed' = res.v /\ oPc' = "routing" /\ UNCHANGED oOutcome
    /\ oProviders' = oProviders + 1
    /\ UNCHANGED <<oMessage, oNow, oConfigured, oFunc, oParams, oCall, oStatus, oDados>>
    /\ UNCHANGED <<parserVars, chatVars, providerVars, validatorVars, sanitizerVars,
                   templateVars, conversationVars>>

\* get_llm_provider or generate raises: nothing catches it
LlmParseRaises ==
    /\ oPc = "parsing"
    /\ \E exc \in LLMErrors : Finish(RaisedOutcome(exc))
    /\ oTrace' = Append(oTrace, "llm_parser.parse")
    /\ oProviders' = oProviders + Constructed(oOutcome'.exc)
    /\ UNCHANGED <<oMessage, oNow, oConfigured, oReply, oParsed, oFunc, oParams, oCall,
                   oStatus, oDados>>
    /\ UNCHANGED <<parserVars, chatVars, providerVars, validatorVars, sanitizerVars,
                   templateVars, conversationVars>>

\* the tests on `parsed`
RouteParsed ==
    /\ oPc = "routing"
    /\ LET r == Route(oParsed) IN
       CASE r.kind = "return" ->
               Finish(ReturnedOutcome(r.v)) /\ UNCHANGED <<oFunc, oParams>>
         [] r.kind = "raise" ->
               Finish(RaisedOutcome(r.exc)) /\ UNCHANGED <<oFunc, oParams>>
         [] r.kind = "function" ->
               /\ oFunc' = r.func
               /\ oParams' = r.params
               /\ oPc' = "dispatch"
               /\ UNCHANGED oOutcome
    /\ UNCHANGED <<oMessage, oNow, oConfigured, oProviders, oReply, oParsed, oCall, oStatus, oDados,
                   oTrace>>
    /\ UNCHANGED <<parserVars, chatVars, providerVars, validatorVars, sanitizerVars,
                   templateVars, conversationVars>>

\* the branch of func_name, up to the call of the tracking-service client
Dispatch ==
    /\ oPc = "dispatch"
    /\ LET p == Plan(oFunc, oParams, oNow) IN
       CASE p.kind = "call" ->
               oCall' = p.call /\ oPc' = "client" /\ UNCHANGED <<oDados, oOutcome>>
         [] p.kind = "nodata" ->
               oDados' = 0 /\ oPc' = "summary" /\ UNCHANGED <<oCall, oOutcome>>
         [] p.kind = "raise" ->
               Finish(RaisedOutcome(p.exc)) /\ UNCHANGED <<oCall, oDados>>
    /\ UNCHANGED <<oMessage, oNow, oConfigured, oProviders, oReply, oParsed, oFunc, oParams, oStatus,
                   oTrace>>
    /\ UNCHANGED <<parserVars, chatVars, providerVars, validatorVars, sanitizerVars,
                   templateVars, conversationVars>>

\* the id a work item is asked by, as it appears in the request's URL
IdText(arg) ==
    CASE arg.k = "num" /\ arg.n >= 0 -> IntToStr(arg.n)
      [] arg.k = "str" -> arg.s
      [] OTHER -> "?"

IdExists(arg) == \E i \in ExistingIds : IdText(arg) = IntToStr(i)

ClientEventOf(method) == "azure_devops_service." \o method
ClientEvent == ClientEventOf(oCall.method)

\* the attribute lookup fails: the service is None, or has no such method
ClientMissing ==
    /\ oPc = "client"
    /\ ~oConfigured \/ oCall.method \notin ServiceMethods
    /\ Finish(RaisedOutcome("AttributeError"))
    /\ UNCHANGED <<oMessage, oNow, oConfigured, oProviders, oReply, oParsed, oFunc, oParams, oCall,
                   oStatus, oDados, oTrace>>
    /\ UNCHANGED <<parserVars, chatVars, providerVars, validatorVars, sanitizerVars,
                   templateVars, conversationVars>>

\* the service answers 200; dados holds the records
ClientReturns ==
    /\ oPc = "client"
    /\ oConfigured /\ oCall.method \in ServiceMethods
    /\ IF oCall.method = "get_work_item_by_id"
       THEN IdExists(oCall.arg) /\ oDados' = 1
       ELSE oDados' \in 0..MaxItems
    /\ oStatus' = 200
    /\ oTrace' = Append(oTrace, ClientEvent)
    /\ oPc' = "summary"
    /\ UNCHANGED <<oMessage, oNow, oConfigured, oProviders, oReply, oParsed, oFunc, oParams, oCall,
                   oOutcome>>
    /\ UNCHANGED <<parserVars, chatVars, providerVars, validatorVars, sanitizerVars,
                   templateVars, conversationVars>>

\* the service answers 404 to get_work_item_by_id
ClientNotFound ==
    /\ oPc = "client"
    /\ oConfigured /\ oCall.method = "get_work_item_by_id"
    /\ ~IdExists(oCall.arg)
    /\ oStatus' = 404
    /\ oTrace' = Append(oTrace, ClientEvent)
    /\ Finish(RaisedOutcome("WorkItemNotFoundError"))
    /\ UNCHANGED <<oMessage, oNow, oConfigured, oProviders, oReply, oParsed, oFunc, oParams, oCall,
                   oDados>>
    /\ UNCHANGED <<parserVars, chatVars, providerVars, validatorVars, sanitizerVars,
                   templateVars, conversationVars>>

\* _make_request fails: 401, another status, or no response at all
ClientFails ==
    /\ oPc = "client"
    /\ oConfigured /\ oCall.method \in ServiceMethods
    /\ \E st \in {0, 401, 500} :
          /\ oStatus' = st
          /\ Finish(RaisedOutcome(CASE st = 401 -> "AuthenticationError"
                                    [] st = 0 -> "UnboundLocalError"
                                    [] OTHER -> "AzureDevOpsAPIError"))
    /\ oTrace' = Append(oTrace, ClientEvent)
    /\ UNCHANGED <<oMessage, oNow, oConfigured, oProviders, oReply, oParsed, oFunc, oParams, oCall,
                   oDados>>
    /\ UNCHANGED <<parserVars, chatVars, providerVars, validatorVars, sanitizerVars,
                   templateVars, conversationVars>>

\* get_llm_provider() constructs a provider, which writes the final answer
\* from the data
SummaryReturns ==
    /\ oPc = "summary"
    /\ \E t \in SummaryTexts : Finish(ReturnedOutcome(JStr(t)))
    /\ oTrace' = Append(oTrace, "llm.generate")
    /\ oProviders' = oProviders + 1
    /\ UNCHANGED <<oMessage, oNow, oConfigured, oReply, oParsed, oFunc, oParams, oCall,
                   oStatus, oDados>>
    /\ UNCHANGED <<parserVars, chatVars, providerVars, validatorVars, sanitizerVars,
                   templateVars, conversationVars>>

SummaryRaises ==
    /\ oPc = "summary"
    /\ \E exc \in LLMErrors : Finish(RaisedOutcome(exc))
    /\ oTrace' = Append(oTrace, "llm.generate")
    /\ oProviders' = oProviders + Constructed(oOutcome'.exc)
    /\ UNCHANGED <<oMessage, oNow, oConfigured, oReply, oParsed, oFunc, oParams, oCall,
                   oStatus, oDados>>
    /\ UNCHANGED <<parserVars, chatVars, providerVars, validatorVars, sanitizerVars,
                   templateVars, conversationVars>>

\* the caller has the outcome; the controller waits for the next message
BackToIdle ==
    /\ oPc = "done"
    /\ oPc' = "idle"
    /\ oMessage' = ""
    /\ oNow' = Date(2024, 1, 1)
    /\ oReply' = <<>>
    /\ oParsed' = JNull
    /\ oFunc' = JNull
    /\ oParams' = JNull
    /\ oCall' = NoCall
    /\ oStatus' = 0
    /\ oDados' = -1
    /\ oTrace' = <<>>
    /\ oOutcome' = NoOutcome
    /\ UNCHANGED <<oConfigured, oProviders>>
    /\ UNCHANGED <<parserVars, chatVars, providerVars, validatorVars, sanitizerVars,
                   templateVars, conversationVars>>

OrchNext ==
    \/ ReceiveMessage
    \/ LlmParseReturns
    \/ LlmParseRaises
    \/ RouteParsed
    \/ Dispatch
    \/ ClientMissing
    \/ ClientReturns
    \/ ClientNotFound
    \/ ClientFails
    \/ SummaryReturns
    \/ SummaryRaises
    \/ BackToIdle

-----------------------------------------------------------------------------
(* ResponseTemplateEngine: the templates and render_template.  The fixed   *)
(* text of a template is reduced to its heading and the labels of its      *)
(* fields; every placeholder of the source is a plain named field.         *)

Text(x)  == [t |-> "text", s |-> x]
Field(n) == [t |-> "field", s |-> n]

templates ==
    [error_generic |->
        <<Text("Erro\n\nOcorreu um erro ao processar sua solicitação.\n\nErro: "),
          Field("error_message")>>,
     error_connection |->
        <<Text("Erro de Conexão\n\nNão foi possível conectar ao Azure DevOps.")>>,
     error_not_found |->
        <<Text("Item Não Encontrado\n\nO item solicitado não foi encontrado.\n\nTipo: "),
          Field("item_type"), Text("\nID/Nome: "), Field("item_id"),
          Text("\nProjeto: "), Field("project")>>,
     welcome |->
        <<Text("Assistente Azure DevOps\n\nOlá "), Field("user_name"),
          Text("\nOrganização: "), Field("organization"), Text("\nProjeto: "), Field("project"),
          Text("\nHora atual: "), Field("current_time")>>,
     help |-> <<Text("Comandos Disponíveis")>>,
     boards_list |->
        <<Text("Boards Disponíveis\n\nAqui estão os boards do projeto "), Field("project"),
          Text("\n"), Field("boards_table"), Text("\nTotal: "), Field("count")>>,
     boards_empty |->
        <<Text("Boards\n\nNenhum board encontrado no projeto "), Field("project")>>,
     work_items_list |->
        <<Text("Work Items "), Field("filter_info"), Text("\nTotal encontrado: "),
          Field("count"), Text("\n"), Field("items_table"), Text("\n"), Field("summary_info")>>,
     work_items_empty |-> <<Text("Work Items "), Field("filter_info")>>,
     work_item_detail |->
        <<Text("Work Item #"), Field("id"), Text("\nTítulo: "), Field("title"),
          Text("\nTipo: "), Field("type"), Text("\nStatus: "), Field("state"),
          Text("\nPrioridade: "), Field("priority"), Text("\nResponsável: "),
          Field("assigned_to"), Text("\nCriado: "), Field("created_date"),
          Text("\nModificado: "), Field("changed_date"), Text("\nÁrea: "), Field("area_path"),
          Text("\nIteração: "), Field("iteration_path"), Text("\n"), Field("tags"),
          Text("\n"), Field("description"), Text("\nURL: "), Field("url")>>,
     search_results |->
        <<Text("Resultados da Busca\n\nTermo buscado: "), Field("search_term"),
          Text("\nResultados encontrados: "), Field("count"), Text("\n"),
          Field("results_table"), Text("\n"), Field("search_summary")>>,
     search_no_results |->
        <<Text("Resultados da Busca\n\nTermo buscado: "), Field("search_term")>>,
     command_suggestions |-> <<Text("Sugestões de Comandos\n\n"), Field("suggestions")>>,
     processing |->
        <<Text("Processando...\n\nComando: "), Field("command"), Text("\nTipo: "),
          Field("command_type")>>,
     stats |->
        <<Text("Estatísticas da Sessão\n\nUsuário: "), Field("user_name"),
          Text("\nOrganização: "), Field("organization"), Text("\nProjeto: "), Field("project"),
          Text("\nSessão iniciada: "), Field("session_start"),
          Text("\nTotal de mensagens: "), Field("total_messages"),
          Text("\nComandos executados: "), Field("commands_executed"),
          Text("\nWork items visualizados: "), Field("work_items_viewed"),
          Text("\nBoards listados: "), Field("boards_listed"),
          Text("\nTempo médio de resposta: "), Field("avg_response_time"),
          Text("\nTaxa de sucesso: "), Field("success_rate")>>,
     goodbye |->
        <<Text("Até logo!\n\nDuração: "), Field("session_duration"),
          Text("\nComandos executados: "), Field("commands_executed"),
          Text("\nWork items visualizados: "), Field("work_items_viewed")>>]

\* the variables render_template takes from the context
ContextVars == [user_name |-> "Usuário", organization |-> "org", project |-> "Projeto",
                current_time |-> "01/01/2024 00:00:00", command_type |-> "get_work_item"]

\* how a call ends: the text returned, or the exception that leaves it
Returns(text) == [raise |-> "", key |-> "", text |-> text]
Raises(exc, key) == [raise |-> exc, key |-> key, text |-> ""]

\* str.format on the template with template_vars: the first field without a variable
\* raises KeyError
str_format(template, template_vars) ==
    LET missing == {i \in 1..Len(template) :
                       template[i].t = "field" /\ template[i].s \notin DOMAIN template_vars}
        piece == [i \in 1..Len(template) |->
                     IF template[i].t = "text" THEN template[i].s
                     ELSE IF i \in missing THEN "" ELSE template_vars[template[i].s]]
    IN IF missing # {}
       THEN Raises("KeyError", template[CHOOSE i \in missing : \A j \in missing : i <= j].s)
       ELSE Returns(Joined(piece, 1, Len(template)))

\* render_template without its except clause
RenderWithoutExcept(template_name, kwargs) ==
    IF template_name \notin DOMAIN templates
    THEN Returns("Template '" \o template_name \o "' não encontrado.")
    ELSE str_format(templates[template_name], kwargs @@ ContextVars)

\* a call of render_template: the KeyError of str.format is caught
RenderCall(template_name, kwargs) ==
    IF template_name \notin DOMAIN templates
    THEN Returns("Template '" \o template_name \o "' não encontrado.")
    ELSE LET out == str_format(templates[template_name], kwargs @@ ContextVars)
         IN IF out.raise = "KeyError"
            THEN Returns("Erro ao renderizar template: variável '" \o out.key
                         \o "' não encontrada.")
            ELSE out

\* the string render_template returns
render_template(template_name, kwargs) == RenderCall(template_name, kwargs).text

\* create_error_response: only error_message is handed to the template
create_error_response(error_message, error_type) ==
    LET name == IF error_type # "generic" THEN "error_" \o error_type ELSE "error_generic"
    IN render_template(IF name \in DOMAIN templates THEN name ELSE "error_generic",
                       "error_message" :> error_message)

\* the template create_error_response renders for an error type
ErrorTemplate(error_type) ==
    LET name == IF error_type # "generic" THEN "error_" \o error_type ELSE "error_generic"
    IN IF name \in DOMAIN templates THEN name ELSE "error_generic"

\* the fields of a template, and the variables a caller hands over for a set
\* of names
FieldsOf(template_name) ==
    {templates[template_name][i].s :
        i \in {j \in DOMAIN templates[template_name] : templates[template_name][j].t = "field"}}

Kwargs(names) == [k \in names |-> "<" \o k \o ">"]

TemplateNames == DOMAIN templates \cup {"error_timeout", "summary"}

\* the keyword variables tried with a template: all its fields, all but one,
\* one alone, none, and a variable it has no field for
KwargSets(template_name) ==
    LET fields == IF template_name \in DOMAIN templates THEN FieldsOf(template_name) ELSE {}
    IN {fields, {}, fields \cup {"extra"}}
       \cup {fields \ {f} : f \in fields} \cup {{f} : f \in fields}

ErrorTypes == {"generic", "connection", "not_found", "timeout", "", "Generic"}

RenderCalls ==
    {[op |-> "render_template", name |-> n, kwargs |-> Kwargs(ks)] :
        n \in TemplateNames, ks \in UNION {KwargSets(m) : m \in TemplateNames}}

ErrorCalls ==
    {[op |-> "create_error_response", name |-> t, kwargs |-> ("error_message" :> m)] :
        t \in ErrorTypes, m \in {"", "404 Not Found"}}

NoTemplateCall == [op |-> "", name |-> "", kwargs |-> EmptyMap]

TemplateIdle ==
    /\ tCall = NoTemplateCall
    /\ tOutcome = Returns("")
    /\ tPc = "idle"

TemplateInit ==
    /\ tCall \in RenderCalls \cup ErrorCalls
    /\ tOutcome = Returns("")
    /\ tPc = "call"

\* a call of render_template
RenderTemplate ==
    /\ tPc = "call"
    /\ tCall.op = "render_template"
    /\ tOutcome' = RenderCall(tCall.name, tCall.kwargs)
    /\ tPc' = "rendered"
    /\ UNCHANGED tCall
    /\ UNCHANGED <<parserVars, orchVars, chatVars, providerVars, validatorVars, sanitizerVars,
                   conversationVars>>

\* a call of create_error_response
CreateErrorResponse ==
    /\ tPc = "call"
    /\ tCall.op = "create_error_response"
    /\ tOutcome' = RenderCall(ErrorTemplate(tCall.name), tCall.kwargs)
    /\ tPc' = "rendered"
    /\ UNCHANGED tCall
    /\ UNCHANGED <<parserVars, orchVars, chatVars, providerVars, validatorVars, sanitizerVars,
                   conversationVars>>

TemplateNext ==
    \/ RenderTemplate
    \/ CreateErrorResponse

-----------------------------------------------------------------------------
(* ChatWidget: send_message on the interface thread, process_message on    *)
(* the thread it starts for each message                                   *)

\* the number of messages sent in a run of the model
MaxSends == 2

\* what the user types before pressing Enter
Inputs == {"   ", " ajuda\n"}

\* how process_user_message ends for the worker
ControllerOutcomes ==
    { ReturnedOutcome(JStr("Encontrei os itens pedidos.")),
      ReturnedOutcome(JNum(7)),
      RaisedOutcome("WorkItemNotFoundError") }

\* an entry of self.messages and a chunk of chat_display; `of` is the number
\* of the send it belongs to and `by` the thread that made it
Entry(role, content, of, by) == [role |-> role, content |-> content, of |-> of, by |-> by]
Chunk(tag, of, by) == [tag |-> tag, of |-> of, by |-> by]

WorkerThread(n) == [pc |-> "status", message |-> cMsg, result |-> NoOutcome, n |-> n]

\* an append that writes the entry twice
AppendTwice(list, entry) == list \o <<entry, entry>>

\* list.append
append(list, entry) == Append(list, entry)

\* chat_display.insert(tk.END, ...) between config(state=NORMAL) and
\* config(state=DISABLED)
insert(display, chunk) == Append(display, chunk)

\* str(e) of the exception the worker caught
ErrorText(result) ==
    "Erro ao processar mensagem: " \o
        (IF result.kind = "raised" THEN result.exc ELSE "TypeError")

ChatIdle ==
    /\ cInput = ""
    /\ cUi = "idle"
    /\ cMsg = ""
    /\ cHistory = <<>>
    /\ cDisplay = <<>>
    /\ cStatus = ""
    /\ cWorkers = <<>>

ChatInit == ChatIdle

\* the user edits the input field
TypeText ==
    /\ cUi = "idle"
    /\ Len(cWorkers) < MaxSends
    /\ \E t \in Inputs : cInput' = t
    /\ cInput' # cInput
    /\ UNCHANGED <<cUi, cMsg, cHistory, cDisplay, cStatus, cWorkers>>
    /\ UNCHANGED <<parserVars, orchVars, providerVars, validatorVars, sanitizerVars,
                   templateVars, conversationVars>>

\* send_message reads the field and returns when the message is empty
SendEmpty ==
    /\ cUi = "idle"
    /\ cInput # ""
    /\ StrStrip(cInput) = ""
    /\ cInput' = ""
    /\ UNCHANGED <<cUi, cMsg, cHistory, cDisplay, cStatus, cWorkers>>
    /\ UNCHANGED <<parserVars, orchVars, providerVars, validatorVars, sanitizerVars,
                   templateVars, conversationVars>>

\* send_message up to the display part of add_user_message
SendStart ==
    /\ cUi = "idle"
    /\ Len(cWorkers) < MaxSends
    /\ StrStrip(cInput) # ""
    /\ cMsg' = StrStrip(cInput)
    /\ cDisplay' = insert(cDisplay, Chunk("user", Len(cWorkers) + 1, "interface"))
    /\ cUi' = "sending"
    /\ UNCHANGED <<cInput, cHistory, cStatus, cWorkers>>
    /\ UNCHANGED <<parserVars, orchVars, providerVars, validatorVars, sanitizerVars,
                   templateVars, conversationVars>>

\* the append of add_user_message, clear_input, and the start of the thread
SendFinish ==
    /\ cUi = "sending"
    /\ cHistory' = append(cHistory, Entry("user", cMsg, Len(cWorkers) + 1, "interface"))
    /\ cInput' = ""
    /\ cWorkers' = Append(cWorkers, WorkerThread(Len(cWorkers) + 1))
    /\ cUi' = "idle"
    /\ cMsg' = ""
    /\ UNCHANGED <<cDisplay, cStatus>>
    /\ UNCHANGED <<parserVars, orchVars, providerVars, validatorVars, sanitizerVars,
                   templateVars, conversationVars>>

Threads == DOMAIN cWorkers

At_(n, pc) == n \in Threads /\ cWorkers[n].pc = pc

Goto(n, pc) == cWorkers' = [cWorkers EXCEPT ![n].pc = pc]

\* update_status("Processando mensagem...")
StatusProcessing(n) ==
    /\ At_(n, "status")
    /\ cStatus' = "Processando mensagem..."
    /\ Goto(n, "call")
    /\ UNCHANGED <<cInput, cUi, cMsg, cHistory, cDisplay>>
    /\ UNCHANGED <<parserVars, orchVars, providerVars, validatorVars, sanitizerVars,
                   templateVars, conversationVars>>

\* process_user_message returns or raises; response[:100] for the log
\* raises TypeError on a response that cannot be sliced
ControllerAnswers(n) ==
    /\ At_(n, "call")
    /\ \E out \in ControllerOutcomes :
          cWorkers' = [cWorkers EXCEPT
                          ![n].result = out,
                          ![n].pc = IF out.kind = "returned" /\ out.v.k \in {"str", "arr"}
                                    THEN "a_display" ELSE "e_display"]
    /\ UNCHANGED <<cInput, cUi, cMsg, cHistory, cDisplay, cStatus>>
    /\ UNCHANGED <<parserVars, orchVars, providerVars, validatorVars, sanitizerVars,
                   templateVars, conversationVars>>

\* add_assistant_message up to its append: markdown2.markdown raises on a
\* response that is no string; else the display is made editable, the
\* timestamp, the prefix and the rendered text are inserted, and the display
\* is made read-only again
AssistantDisplay(n) ==
    /\ At_(n, "a_display")
    /\ IF cWorkers[n].result.v.k = "str"
       THEN /\ cDisplay' = insert(cDisplay, Chunk("assistant", n, "worker"))
            /\ Goto(n, "a_append")
       ELSE /\ Goto(n, "e_display")
            /\ UNCHANGED cDisplay
    /\ UNCHANGED <<cInput, cUi, cMsg, cHistory, cStatus>>
    /\ UNCHANGED <<parserVars, orchVars, providerVars, validatorVars, sanitizerVars,
                   templateVars, conversationVars>>

\* self.messages.append of the assistant entry
AssistantAppend(n) ==
    /\ At_(n, "a_append")
    /\ cHistory' = append(cHistory,
                          Entry("assistant", cWorkers[n].result.v.s, n, "worker"))
    /\ Goto(n, "a_status")
    /\ UNCHANGED <<cInput, cUi, cMsg, cDisplay, cStatus>>
    /\ UNCHANGED <<parserVars, orchVars, providerVars, validatorVars, sanitizerVars,
                   templateVars, conversationVars>>

\* update_status("Mensagem processada")
StatusProcessed(n) ==
    /\ At_(n, "a_status")
    /\ cStatus' = "Mensagem processada"
    /\ Goto(n, "finished")
    /\ UNCHANGED <<cInput, cUi, cMsg, cHistory, cDisplay>>
    /\ UNCHANGED <<parserVars, orchVars, providerVars, validatorVars, sanitizerVars,
                   templateVars, conversationVars>>

\* except Exception: add_error_message up to its append
ErrorDisplay(n) ==
    /\ At_(n, "e_display")
    /\ cDisplay' = insert(cDisplay, Chunk("error", n, "worker"))
    /\ Goto(n, "e_append")
    /\ UNCHANGED <<cInput, cUi, cMsg, cHistory, cStatus>>
    /\ UNCHANGED <<parserVars, orchVars, providerVars, validatorVars, sanitizerVars,
                   templateVars, conversationVars>>

\* self.messages.append of the error entry
ErrorAppend(n) ==
    /\ At_(n, "e_append")
    /\ cHistory' = append(cHistory,
                          Entry("error", ErrorText(cWorkers[n].result), n, "worker"))
    /\ Goto(n, "e_status")
    /\ UNCHANGED <<cInput, cUi, cMsg, cDisplay, cStatus>>
    /\ UNCHANGED <<parserVars, orchVars, providerVars, validatorVars, sanitizerVars,
                   templateVars, conversationVars>>

\* update_status("Erro ao processar mensagem")
StatusError(n) ==
    /\ At_(n, "e_status")
    /\ cStatus' = "Erro ao processar mensagem"
    /\ Goto(n, "finished")
    /\ UNCHANGED <<cInput, cUi, cMsg, cHistory, cDisplay>>
    /\ UNCHANGED <<parserVars, orchVars, providerVars, validatorVars, sanitizerVars,
                   templateVars, conversationVars>>

\* one step of the thread of the n-th message
WorkerStep(n) ==
    \/ StatusProcessing(n)
    \/ ControllerAnswers(n)
    \/ AssistantDisplay(n)
    \/ AssistantAppend(n)
    \/ StatusProcessed(n)
    \/ ErrorDisplay(n)
    \/ ErrorAppend(n)
    \/ StatusError(n)

ChatNext ==
    \/ TypeText
    \/ SendEmpty
    \/ SendStart
    \/ SendFinish
    \/ \E n \in 1..MaxSends : WorkerStep(n)

-----------------------------------------------------------------------------
(* The LLM providers: generate(request) of OpenAIProvider, AnthropicProvider, *)
(* GoogleProvider and DeepSeekProvider.  The vendor's API is the environment: *)
(* it answers with a content, with an answer that holds no content, or it     *)
(* fails with or without an HTTP status.  A temperature is in tenths.         *)

Providers == {"openai", "anthropic", "google", "deepseek"}

\* status_code = None
NoStatus == 0

Message(role, content) == [role |-> role, content |-> content]

LLMRequest(messages, model, max_tokens, temperature, stream) ==
    [messages |-> messages, model |-> model, max_tokens |-> max_tokens,
     temperature |-> temperature, stream |-> stream]

RequestMessages ==
    { <<>>,
      <<Message("user", "liste os boards")>>,
      <<Message("system", "regras"), Message("user", "liste os boards")>>,
      <<Message("assistant", "pronto")>> }

Requests ==
    {LLMRequest(ms, "modelo", mt, t, st) :
        ms \in RequestMessages, mt \in {0, 256}, t \in {-1, 7, 21}, st \in BOOLEAN}

\* BaseLLMProvider.validate_request: the message of the ValueError, "" when
\* the request passes
validate_request(request) ==
    IF request.messages = <<>> THEN "Messages cannot be empty"
    ELSE IF request.max_tokens <= 0 THEN "max_tokens must be positive"
    ELSE IF ~(0 <= request.temperature /\ request.temperature <= 20)
         THEN "temperature must be between 0 and 2"
    ELSE ""

\* the content of the last message of a role, "" when there is none
LastContent(messages, role) ==
    LET ks == {k \in DOMAIN messages : messages[k].role = role}
    IN IF ks = {} THEN ""
       ELSE messages[CHOOSE k \in ks : \A j \in ks : j <= k].content

\* GoogleProvider.format_messages and the loop of generate over its result:
\* the text sent, the system message before the user message
last_user_message(messages) ==
    LET system_message == LastContent(messages, "system")
        user_message   == LastContent(messages, "user")
    IN IF system_message # "" /\ user_message # ""
       THEN system_message \o "\n\n" \o user_message
       ELSE IF system_message # "" THEN system_message ELSE user_message

LLMResponse(content, model, provider) ==
    [kind |-> "response", exc |-> "", content |-> content, model |-> model,
     provider |-> provider, status_code |-> NoStatus]

\* raise LLMProviderError(provider, message, status_code)
ProviderError(provider, status_code) ==
    [kind |-> "raised", exc |-> "LLMProviderError", content |-> <<>>, model |-> "",
     provider |-> provider, status_code |-> status_code]

NoGenerate ==
    [kind |-> "none", exc |-> "", content |-> <<>>, model |-> "", provider |-> "",
     status_code |-> NoStatus]

\* what the vendor does: a content (<<>> for null), an answer without choices
\* or text, or a failure with its HTTP status (NoStatus: no answer came)
VendorContent(c) == [kind |-> "content", content |-> c, status |-> 200]
VendorNoChoices == [kind |-> "no_choices", content |-> <<>>, status |-> 200]
VendorFail(status) == [kind |-> "fail", content |-> <<>>, status |-> status]
NoVendor == [kind |-> "none", content |-> <<>>, status |-> NoStatus]

\* the SDKs of OpenAI and DeepSeek's HTTP API can answer with a null content;
\* Anthropic's text block and Gemini's response.text hold a string or raise
VendorOutcomes(provider) ==
    {VendorContent(<<"Resposta">>), VendorNoChoices}
    \cup {VendorFail(st) : st \in {401, 429, 500, NoStatus}}
    \cup (IF provider \in {"openai", "deepseek"} THEN {VendorContent(<<>>)} ELSE {})

\* the except clauses of OpenAIProvider.generate and AnthropicProvider.generate
\* on the SDK's exception: AuthenticationError, RateLimitError, APIError
\* (the connection error is an APIError)
SdkError(provider, status) ==
    IF status = 401 THEN ProviderError(provider, 401)
    ELSE IF status = 429 THEN ProviderError(provider, 429)
    ELSE ProviderError(provider, 500)

\* DeepSeekProvider.generate: the error raised where the status is looked at
DeepSeekDetected(status) == ProviderError("deepseek", status)

\* DeepSeekProvider.generate, except Exception as e: the error raised in its place
DeepSeekCaught(e) == ProviderError("deepseek", NoStatus)

\* what generate gives once the vendor has done v
AfterVendor(provider, request, v) ==
    CASE v.kind = "fail" ->
            IF provider \in {"openai", "anthropic"} THEN SdkError(provider, v.status)
            ELSE IF provider = "google" THEN ProviderError("google", NoStatus)
            ELSE IF v.status = NoStatus THEN ProviderError("deepseek", NoStatus)
            ELSE DeepSeekCaught(DeepSeekDetected(v.status))
      [] v.kind = "no_choices" -> ProviderError(provider, NoStatus)
      [] v.kind = "content" ->
            IF request.stream /\ provider \in {"openai", "deepseek"}
            THEN ProviderError(provider, NoStatus)
            ELSE LLMResponse(v.content, request.model, provider)

ProviderIdle ==
    /\ gProvider = ""
    /\ gRequest = LLMRequest(<<>>, "", 0, 0, FALSE)
    /\ gOutcome = NoGenerate
    /\ gVendor = NoVendor
    /\ gPc = "idle"

ProviderInit ==
    /\ gProvider \in Providers
    /\ gRequest \in Requests
    /\ gOutcome = NoGenerate
    /\ gVendor = NoVendor
    /\ gPc = "call"

\* generate up to the call of the vendor: validate_request and, for Google,
\* the search for the user message; their ValueError is caught by
\* except Exception and raised as a provider error
GenerateCalled ==
    /\ gPc = "call"
    /\ IF \/ validate_request(gRequest) # ""
          \/ gProvider = "google" /\ last_user_message(gRequest.messages) = ""
       THEN gOutcome' = ProviderError(gProvider, NoStatus) /\ gPc' = "done"
       ELSE gOutcome' = gOutcome /\ gPc' = "vendor"
    /\ UNCHANGED <<gProvider, gRequest, gVendor>>
    /\ UNCHANGED <<parserVars, orchVars, chatVars, validatorVars, sanitizerVars, templateVars,
                   conversationVars>>

\* the vendor answers or fails, and generate returns or raises
VendorAnswers ==
    /\ gPc = "vendor"
    /\ \E v \in VendorOutcomes(gProvider) :
          /\ gVendor' = v
          /\ gOutcome' = AfterVendor(gProvider, gRequest, v)
    /\ gPc' = "done"
    /\ UNCHANGED <<gProvider, gRequest>>
    /\ UNCHANGED <<parserVars, orchVars, chatVars, validatorVars, sanitizerVars, templateVars,
                   conversationVars>>

ProviderNext ==
    \/ GenerateCalled
    \/ VendorAnswers

-----------------------------------------------------------------------------
(* CommandValidator.validate_command.  A confidence is an exact rational,  *)
(* a penalty or threshold is a number of tenths.                           *)

Minus(c, tenths) == Conf(10 * c.n - tenths * c.d, 10 * c.d)    \* c - tenths/10
AtLeast(c, tenths) == 10 * c.n >= tenths * c.d                 \* c >= tenths/10
Max0(c) == IF c.n < 0 THEN Conf(0, c.d) ELSE c                 \* max(0.0, c)

ValidationLevels == {"LOW", "MEDIUM", "HIGH"}

ForbiddenBase == <<"<script>", "javascript:", "data:text/html">>

Rules(min_length, max_length, required_keywords, required_patterns, forbidden_patterns) ==
    [min_length |-> min_length, max_length |-> max_length,
     required_keywords |-> required_keywords, required_patterns |-> required_patterns,
     forbidden_patterns |-> forbidden_patterns]

\* self.validation_rules.get(command_type, {}), with the defaults of rules.get
validation_rules(command_type) ==
    CASE command_type = "LIST_BOARDS" ->
            Rules(3, 100, <<"board", "list", "show", "get", "display">>, <<>>, ForbiddenBase)
      [] command_type = "LIST_WORK_ITEMS" ->
            Rules(3, 200, <<"item", "work", "list", "show", "get", "display">>, <<>>,
                  ForbiddenBase)
      [] command_type = "GET_WORK_ITEM" ->
            Rules(5, 50, <<>>, <<"\\d+">>, ForbiddenBase)
      [] command_type = "SEARCH_WORK_ITEMS" ->
            Rules(5, 300, <<"search", "find", "busque", "procure", "encontre">>, <<>>,
                  ForbiddenBase \o <<"[<>]">>)
      [] command_type = "GET_BOARD" ->
            Rules(5, 100, <<"board", "get", "show", "display", "view">>, <<>>, ForbiddenBase)
      [] command_type = "HELP" ->
            Rules(2, 20, <<"help", "ajuda", "socorro">>, <<>>, ForbiddenBase)
      [] OTHER -> Rules(1, 1000, <<>>, <<>>, <<>>)

\* re.search(pattern, text, re.IGNORECASE) for the patterns of the rules: the
\* class [<>], the digits \d+, and literal texts
RuleSearch(pattern, text) ==
    IF pattern = "[<>]" THEN Contains(text, "<") \/ Contains(text, ">")
    ELSE IF pattern = "\\d+" THEN ReSearch(Digits1, text).found
    ELSE Contains(StrLower(text), pattern)

\* errors.append(message); confidence -= tenths / 10
Fault(st, message, tenths) ==
    [st EXCEPT !.errors = Append(@, message), !.confidence = Minus(@, tenths)]

Warn(st, message) == [st EXCEPT !.warnings = Append(@, message)]

\* the loop over forbidden_patterns, from pattern k on
RECURSIVE ForbiddenFrom(_, _, _, _)
ForbiddenFrom(st, text, pats, k) ==
    IF k > Len(pats) THEN st
    ELSE ForbiddenFrom(IF RuleSearch(pats[k], text)
                       THEN Fault(st, "Comando contém padrão proibido: " \o pats[k], 5)
                       ELSE st,
                       text, pats, k + 1)

\* the command-specific block: a work item id that is truthy must be a
\* positive integer; search terms get length warnings
CommandSpecific(st, cmd) ==
    IF cmd.command_type = "GET_WORK_ITEM"
    THEN IF "work_item_id" \in DOMAIN cmd.parameters /\ cmd.parameters["work_item_id"] # 0
         THEN IF cmd.parameters["work_item_id"] <= 0
              THEN Fault(st, "ID do work item deve ser um número positivo", 3)
              ELSE IF cmd.parameters["work_item_id"] > 999999
                   THEN Warn(st, "ID do work item parece ser muito alto")
                   ELSE st
         ELSE st
    ELSE IF cmd.command_type = "SEARCH_WORK_ITEMS"
    THEN LET search_terms == IF "search_terms" \in DOMAIN cmd.parameters
                             THEN cmd.parameters["search_terms"] ELSE ""
         IN IF Len(search_terms) < 2
            THEN Warn(st, "Termo de busca muito curto, pode retornar muitos resultados")
            ELSE IF Len(search_terms) > 100
                 THEN Warn(st, "Termo de busca muito longo")
                 ELSE st
    ELSE st

HighMessage == "Confiança muito baixa para processamento seguro"
MediumMessage == "Confiança baixa, verifique o comando"

\* the threshold of the validation level
LevelCheck(st, validation_level) ==
    IF validation_level = "HIGH" /\ ~AtLeast(st.confidence, 7)
    THEN [st EXCEPT !.errors = Append(@, HighMessage)]
    ELSE IF validation_level = "MEDIUM" /\ ~AtLeast(st.confidence, 5)
         THEN [st EXCEPT !.errors = Append(@, MediumMessage)]
         ELSE st

\* is_valid without the floor on the confidence
IsValidWithoutFloor(errors, confidence) == Len(errors) = 0

\* is_valid = len(errors) == 0 and confidence >= 0.3
IsValid(errors, confidence) == Len(errors) = 0 /\ AtLeast(confidence, 3)

ValidationResult(is_valid, confidence, warnings, errors, validation_level) ==
    [is_valid |-> is_valid, confidence |-> confidence, warnings |-> warnings,
     errors |-> errors, validation_level |-> validation_level]

\* CommandValidator.validate_command; sanitized_command, which depends on the
\* text alone and on which nothing else depends, is left out of the result
validate_command(parsed_command, validation_level) ==
    LET rules == validation_rules(parsed_command.command_type)
        text  == parsed_command.original_text
        s0 == [errors |-> <<>>, warnings |-> <<>>, confidence |-> parsed_command.confidence]
        s1 == IF Len(text) < rules.min_length
              THEN Fault(s0, "Comando muito curto. Mínimo: "
                             \o IntToStr(rules.min_length) \o " caracteres", 2)
              ELSE s0
        s2 == IF Len(text) > rules.max_length
              THEN Fault(s1, "Comando muito longo. Máximo: "
                             \o IntToStr(rules.max_length) \o " caracteres", 2)
              ELSE s1
        kws == rules.required_keywords
        s3 == IF kws # <<>> /\ \A k \in DOMAIN kws : ~Contains(StrLower(text), StrLower(kws[k]))
              THEN Fault(s2, "Comando deve conter pelo menos uma das palavras", 3)
              ELSE s2
        rps == rules.required_patterns
        s4 == IF rps # <<>> /\ \A k \in DOMAIN rps : ~RuleSearch(rps[k], text)
              THEN Fault(s3, "Comando não contém padrão obrigatório", 3)
              ELSE s3
        s5 == ForbiddenFrom(s4, text, rules.forbidden_patterns, 1)
        s6 == CommandSpecific(s5, parsed_command)
        s7 == LevelCheck(s6, validation_level)
    IN ValidationResult(IsValid(s7.errors, s7.confidence), Max0(s7.confidence),
                        s7.warnings, s7.errors, validation_level)

\* the commands validated: a text per intent, alone and with an injection
\* appended, at several confidences; and work item ids that are no valid id
ValidatorBase ==
    { <<"LIST_BOARDS", "list boards", EmptyMap>>,
      <<"LIST_WORK_ITEMS", "list work items", EmptyMap>>,
      <<"GET_WORK_ITEM", "show item 7", ("work_item_id" :> 7)>>,
      <<"SEARCH_WORK_ITEMS", "search login", ("search_terms" :> "login")>>,
      <<"GET_BOARD", "show board alfa", ("board_name" :> "alfa")>>,
      <<"HELP", "help", EmptyMap>>,
      <<"UNKNOWN", "xyz", EmptyMap>> }

Injections == {"", " <script>alert(1)</script>", " <SCRIPT src=x>", " javascript:run()",
               " onclick=run()"}

Confidences == {Conf(10, 10), Conf(6, 10), Conf(4, 10), Conf(2, 10)}

ValidatorCommands ==
    {ParsedCommand(b[1], b[3], c, b[2] \o i) :
        b \in ValidatorBase, i \in Injections, c \in Confidences}
    \cup {ParsedCommand("GET_WORK_ITEM", ("work_item_id" :> id), c, "item " \o t) :
            id \in {-5, 0, 1000000}, c \in Confidences, t \in {"0", "x"}}
    \cup {parse(t) : t \in {"item 0", "Mostre o item #123", "Liste os boards", "bugs"}}

NoValidation == ValidationResult(FALSE, Conf(0, 1), <<>>, <<>>, "")

ValidatorIdle ==
    /\ vCommand = NoResult
    /\ vLevel = ""
    /\ vResult = NoValidation
    /\ vPc = "idle"

ValidatorInit ==
    /\ vCommand \in ValidatorCommands
    /\ vLevel \in ValidationLevels
    /\ vResult = NoValidation
    /\ vPc = "input"

\* one call of validate_command
ValidateCommand ==
    /\ vPc = "input"
    /\ vResult' = validate_command(vCommand, vLevel)
    /\ vPc' = "validated"
    /\ UNCHANGED <<vCommand, vLevel>>
    /\ UNCHANGED <<parserVars, orchVars, chatVars, providerVars, sanitizerVars, templateVars,
                   conversationVars>>

ValidatorNext == ValidateCommand

-----------------------------------------------------------------------------
(* CommandValidator._sanitize_command and get_security_score *)

\* re.sub(pattern, repl, text) from position i on: every leftmost match,
\* found on `matched` (the text, lower-cased under re.IGNORECASE), is replaced
RECURSIVE SubFrom(_, _, _, _, _)
SubFrom(r, repl, txt, matched, i) ==
    LET m == SearchFrom(r, matched, i)
    IN IF ~m.found THEN SubSeq(txt, i, Len(txt))
       ELSE SubSeq(txt, i, m.start - 1) \o repl \o SubFrom(r, repl, txt, matched, m.end)

ReSub(r, repl, txt) == SubFrom(r, repl, txt, txt, 1)
ReSubIgnoreCase(r, repl, txt) == SubFrom(r, repl, txt, StrLower(txt), 1)

\* <name[^>]*>.*?</name>
Element(name) ==
    Cat(<<Lit("<" \o name), Star(NCls({">"})), Lit(">"), LazyAll, Lit("</" \o name \o ">")>>)

\* self.sanitization_rules; normalize_quotes and normalize_apostrophes are the
\* same pattern, the class of the double quote
sanitization_rules ==
    [remove_html |-> Cat(<<Lit("<"), Plus(NCls({">"})), Lit(">")>>),
     remove_scripts |-> Element("script"),
     remove_style |-> Element("style"),
     remove_extra_whitespace |-> Ws1,
     normalize_quotes |-> Cls({"\""}),
     normalize_apostrophes |-> Cls({"\""})]

\* the sanitizer without the removal of the remaining tags
SanitizeWithoutTags(command) ==
    LET a == ReSubIgnoreCase(sanitization_rules.remove_scripts, "", command)
        b == ReSubIgnoreCase(sanitization_rules.remove_style, "", a)
        d == ReSub(sanitization_rules.normalize_quotes, "\"", b)
        e == ReSub(sanitization_rules.normalize_apostrophes, "'", d)
        f == ReSub(sanitization_rules.remove_extra_whitespace, " ", e)
    IN StrStrip(f)

\* CommandValidator._sanitize_command
_sanitize_command(command) ==
    LET a == ReSubIgnoreCase(sanitization_rules.remove_scripts, "", command)
        b == ReSubIgnoreCase(sanitization_rules.remove_style, "", a)
        c == ReSub(sanitization_rules.remove_html, "", b)
        d == ReSub(sanitization_rules.normalize_quotes, "\"", c)
        e == ReSub(sanitization_rules.normalize_apostrophes, "'", d)
        f == ReSub(sanitization_rules.remove_extra_whitespace, " ", e)
    IN StrStrip(f)

\* on\w+\s*=
EventHandler == Cat(<<Lit("on"), Plus(Cls(WordChars)), Ws0, Lit("=")>>)

\* \b(a|b|c)\b
WholeWord(ws) == Cat(<<WordEdge, Words(ws), WordEdge>>)

QuotedWord == Cat(<<Lit("'"), Plus(Cls(WordChars)), Lit("'")>>)   \* '\w+'

dangerous_patterns ==
    <<Lit("<script"), Lit("javascript:"), Lit("data:text/html"), Lit("vbscript:"),
      EventHandler, Lit("<iframe"), Lit("<object"), Lit("<embed")>>

sql_patterns ==
    <<WholeWord(<<"union", "select", "insert", "update", "delete", "drop", "create", "alter">>),
      Cat(<<WholeWord(<<"and", "or">>), Ws1, Digits1, Ws0, Lit("="), Ws0, Digits1>>),
      Cat(<<WholeWord(<<"and", "or">>), Ws1, QuotedWord, Ws0, Lit("="), Ws0, QuotedWord>>)>>

\* the class [;&|$] and the backquote, which no text of the model holds
cmd_patterns ==
    <<Cls({";", "&", "|", "$"}),
      WholeWord(<<"cat", "ls", "rm", "del", "dir", "type">>),
      WholeWord(<<"echo", "print", "printf">>)>>

\* score -= tenths / 10, on a score in tenths
Lowered(score, tenths) == Conf(score.n - tenths, score.d)

\* for pattern in pats: if re.search(pattern, command, re.IGNORECASE): score -= tenths / 10
RECURSIVE ScoreFrom(_, _, _, _, _)
ScoreFrom(score, command, pats, k, tenths) ==
    IF k > Len(pats) THEN score
    ELSE ScoreFrom(IF ReSearch(pats[k], command).found THEN Lowered(score, tenths) ELSE score,
                   command, pats, k + 1, tenths)

\* the score before max(0.0, score)
ScoreWithoutFloor(command) ==
    ScoreFrom(ScoreFrom(ScoreFrom(Conf(10, 10), command, dangerous_patterns, 1, 5),
                        command, sql_patterns, 1, 3),
              command, cmd_patterns, 1, 2)

\* CommandValidator.get_security_score
get_security_score(command) == Max0(ScoreWithoutFloor(command))

\* the command texts: up to three pieces of markup and text in a row, and
\* texts that match the patterns of one or several families
Pieces == {"<script>", "</script>", "<SCRIPT src=x>", "<style>", "</STYLE>", "<b>", "<", ">",
           "\"", "'", " ", "\t\n", "a", "<scr", "ipt>"}

PieceTexts ==
    {""} \cup Pieces \cup {a \o b : a \in Pieces, b \in Pieces}
    \cup {a \o b \o c : a \in {"<script>", "<scr", "<", "\"", " ", "a"}, b \in Pieces, c \in Pieces}

SecurityTexts ==
    {"list boards", "show item 7", "<script>alert(1)</script>", "<a href=javascript:run()>",
     "<iframe src=data:text/html,x onload = go()>", "<object><embed>vbscript:x",
     "select name", "Drop table items", "x or 1 = 1", "x AND 'a'='a'", "selection",
     "union select x or 1=1 and 'a' = 'b'", "rm file; ls | cat", "echo $home", "printf x",
     "type a & del b", "a;b", "category", "onclick=run(); select 1 or 1=1; echo x",
     "<script src=javascript:x onload=y> union select 1; rm x",
     "<scr<script>x</script>ipt>alert(1)</script>"}

SanitizerTexts == PieceTexts \cup SecurityTexts

NoScore == Conf(0, 1)

SanitizerIdle ==
    /\ sCommand = ""
    /\ sSanitized = ""
    /\ sAgain = ""
    /\ sScore = NoScore
    /\ sPc = "idle"

SanitizerInit ==
    /\ sCommand \in SanitizerTexts
    /\ sSanitized = ""
    /\ sAgain = ""
    /\ sScore = NoScore
    /\ sPc = "input"

\* one call of _sanitize_command on the command text
SanitizeCommand ==
    /\ sPc = "input"
    /\ sSanitized' = _sanitize_command(sCommand)
    /\ sPc' = "sanitized"
    /\ UNCHANGED <<sCommand, sAgain, sScore>>
    /\ UNCHANGED <<parserVars, orchVars, chatVars, providerVars, validatorVars, templateVars,
                   conversationVars>>

\* _sanitize_command called on its own result
SanitizeAgain ==
    /\ sPc = "sanitized"
    /\ sAgain' = _sanitize_command(sSanitized)
    /\ sPc' = "again"
    /\ UNCHANGED <<sCommand, sSanitized, sScore>>
    /\ UNCHANGED <<parserVars, orchVars, chatVars, providerVars, validatorVars, templateVars,
                   conversationVars>>

\* one call of get_security_score on the command text
ScoreCommand ==
    /\ sPc = "input"
    /\ sScore' = get_security_score(sCommand)
    /\ sPc' = "scored"
    /\ UNCHANGED <<sCommand, sSanitized, sAgain>>
    /\ UNCHANGED <<parserVars, orchVars, chatVars, providerVars, validatorVars, templateVars,
                   conversationVars>>

SanitizerNext ==
    \/ SanitizeCommand
    \/ SanitizeAgain
    \/ ScoreCommand

-----------------------------------------------------------------------------
(* ConversationManager: the sessions and their message logs.  A message    *)
(* carries the number n of its add_message call, which stands for the      *)
(* Message object; the context handed to the LLM holds role and content.   *)

max_history_length == 50
max_context_length == 4000

\* the calls of add_message and of create_session in a run of the model
MaxAdds == 2
MaxCreates == 2
\* the seconds the clock can advance
MaxClock == 1

ConversationMessage(role, content, n) == [role |-> role, content |-> content, n |-> n]

ConversationSession(session_id, user_id, messages) ==
    [session_id |-> session_id, user_id |-> user_id, messages |-> messages, is_active |-> TRUE]

IsSystem(m) == m.role = "system"
NotSystem(m) == m.role # "system"

\* messages[-k:]
LastOf(messages, k) ==
    IF k >= Len(messages) THEN messages
    ELSE SubSeq(messages, Len(messages) - k + 1, Len(messages))

\* the k of session.messages[-self.max_history_length//2:], the floor division
\* of the negated length
HalfHistory == (max_history_length + 1) \div 2

\* the trimming of add_message: every system message, then the recent messages
Trimmed(messages) ==
    IF Len(messages) > max_history_length
    THEN SelectSeq(messages, IsSystem) \o LastOf(messages, HalfHistory)
    ELSE messages

\* ConversationManager.add_message on the message list of a session
add_message(messages, role, content, n) ==
    Trimmed(Append(messages, ConversationMessage(role, content, n)))

\* strftime('%Y%m%d_%H%M%S') of the clock
Stamp(clock) == "20240101_0000" \o ZeroPad(IntToStr(clock), 2)

\* the session id create_session makes
SessionId(user_id, clock) == user_id \o "_" \o Stamp(clock)

LlmMessage(m) == [role |-> m.role, content |-> m.content]

RECURSIVE SumLen(_, _)
SumLen(messages, k) ==
    IF k > Len(messages) THEN 0 ELSE Len(messages[k].content) + SumLen(messages, k + 1)

Reversed(q) == [i \in 1..Len(q) |-> q[Len(q) - i + 1]]

\* the loop over reversed(recent_messages[-10:]): messages are taken, most
\* recent first, until one does not fit
RECURSIVE TakeRecent(_, _, _, _)
TakeRecent(recent, k, total_length, max_length) ==
    IF k > Len(recent) \/ total_length + Len(recent[k].content) > max_length THEN <<>>
    ELSE <<LlmMessage(recent[k])>>
         \o TakeRecent(recent, k + 1, total_length + Len(recent[k].content), max_length)

\* ConversationManager.get_conversation_for_llm; max_length 0 stands for None
get_conversation_for_llm(messages, max_length) ==
    LET limit == IF max_length = 0 THEN max_context_length ELSE max_length
        system_messages == SelectSeq(messages, IsSystem)
        llm_system == [i \in 1..Len(system_messages) |-> LlmMessage(system_messages[i])]
        recent_messages == SelectSeq(messages, NotSystem)
        taken == TakeRecent(Reversed(LastOf(recent_messages, 10)), 1,
                            SumLen(system_messages, 1), limit)
    IN Reversed(llm_system \o taken)

\* the logs a session can hold before the calls of the model: length
\* messages added one after the other, with the roles of a pattern
RoleAt(pattern, i, length) ==
    CASE pattern = "dialogue" -> IF i % 2 = 1 THEN "user" ELSE "assistant"
      [] pattern = "system_first" ->
            IF i = 1 THEN "system" ELSE IF i % 2 = 0 THEN "user" ELSE "assistant"
      [] pattern = "system_recent" ->
            IF i = length - 1 THEN "system" ELSE IF i % 2 = 1 THEN "user" ELSE "assistant"
      [] pattern = "system_only" -> "system"
      [] pattern = "long_system" ->
            IF i = 1 THEN "system" ELSE IF i % 2 = 0 THEN "user" ELSE "assistant"

LongContent == Joined([k \in 1..(max_context_length + 1) |-> "x"], 1, max_context_length + 1)

ContentAt(pattern, i) ==
    IF pattern = "long_system" /\ i = 1 THEN LongContent ELSE "mensagem " \o IntToStr(i)

Log(pattern, length) ==
    [i \in 1..length |-> ConversationMessage(RoleAt(pattern, i, length), ContentAt(pattern, i), i)]

LogPatterns == {"dialogue", "system_first", "system_recent", "system_only", "long_system"}
LogLengths == {0, 3, 12, max_history_length - 1, max_history_length}

Users == {"ana", "bob"}
Roles == {"user", "assistant", "system"}
MaxLengths == {0, 20, 100}

NoManagerCall == [op |-> "", session_id |-> "", max_length |-> 0, result |-> <<>>]
ManagerCall(op, session_id, max_length, result) ==
    [op |-> op, session_id |-> session_id, max_length |-> max_length, result |-> result]

ConversationIdle ==
    /\ kActive = <<>>
    /\ kClock = 0
    /\ kNext = 1
    /\ kCall = NoManagerCall
    /\ kBefore = <<>>
    /\ kAdds = 0
    /\ kCreates = 0

\* one session of "ana", created at second 0, holds a log
ConversationInit ==
    /\ \E pattern \in LogPatterns, length \in LogLengths :
          /\ kActive = (SessionId("ana", 0) :>
                           ConversationSession(SessionId("ana", 0), "ana", Log(pattern, length)))
          /\ kNext = length + 1
    /\ kClock = 0
    /\ kCall = NoManagerCall
    /\ kBefore = <<>>
    /\ kAdds = 0
    /\ kCreates = 0

\* the clock advances by a second
Tick ==
    /\ kClock < MaxClock
    /\ kClock' = kClock + 1
    /\ UNCHANGED <<kActive, kNext, kCall, kBefore, kAdds, kCreates>>
    /\ UNCHANGED <<parserVars, orchVars, chatVars, providerVars, validatorVars, sanitizerVars,
                   templateVars>>

\* ConversationManager.create_session: the session is stored under its id,
\* whatever is stored there
CreateSession ==
    /\ kCreates < MaxCreates
    /\ \E user_id \in Users :
          LET session_id == SessionId(user_id, kClock)
          IN /\ kActive' = [s \in DOMAIN kActive \cup {session_id} |->
                               IF s = session_id
                               THEN ConversationSession(session_id, user_id, <<>>)
                               ELSE kActive[s]]
             /\ kCall' = ManagerCall("create_session", session_id, 0, <<>>)
    /\ kBefore' = kActive
    /\ kCreates' = kCreates + 1
    /\ UNCHANGED <<kClock, kNext, kAdds>>
    /\ UNCHANGED <<parserVars, orchVars, chatVars, providerVars, validatorVars, sanitizerVars,
                   templateVars>>

\* ConversationManager.add_message on an active session
AddMessage ==
    /\ kAdds < MaxAdds
    /\ \E session_id \in DOMAIN kActive, role \in Roles :
          /\ kActive' = [kActive EXCEPT ![session_id].messages =
                            add_message(@, role, "mensagem " \o IntToStr(kNext), kNext)]
          /\ kCall' = ManagerCall("add_message", session_id, 0, <<>>)
    /\ kBefore' = kActive
    /\ kNext' = kNext + 1
    /\ kAdds' = kAdds + 1
    /\ UNCHANGED <<kClock, kCreates>>
    /\ UNCHANGED <<parserVars, orchVars, chatVars, providerVars, validatorVars, sanitizerVars,
                   templateVars>>

\* ConversationManager.end_session: the session leaves active_sessions
EndSession ==
    /\ \E session_id \in DOMAIN kActive :
          /\ kActive' = [s \in DOMAIN kActive \ {session_id} |-> kActive[s]]
          /\ kCall' = ManagerCall("end_session", session_id, 0, <<>>)
    /\ kBefore' = kActive
    /\ UNCHANGED <<kClock, kNext, kAdds, kCreates>>
    /\ UNCHANGED <<parserVars, orchVars, chatVars, providerVars, validatorVars, sanitizerVars,
                   templateVars>>

\* ConversationManager.get_conversation_for_llm on an active session
GetConversationForLlm ==
    /\ kCall.op # "get_conversation_for_llm"
    /\ \E session_id \in DOMAIN kActive, max_length \in MaxLengths :
          kCall' = ManagerCall("get_conversation_for_llm", session_id, max_length,
                               get_conversation_for_llm(kActive[session_id].messages,
                                                        max_length))
    /\ kBefore' = kActive
    /\ UNCHANGED <<kActive, kClock, kNext, kAdds, kCreates>>
    /\ UNCHANGED <<parserVars, orchVars, chatVars, providerVars, validatorVars, sanitizerVars,
                   templateVars>>

ConversationNext ==
    \/ Tick
    \/ CreateSession
    \/ AddMessage
    \/ EndSession
    \/ GetConversationForLlm

-----------------------------------------------------------------------------
(* The parser under test: the texts it is applied to *)

Prefixes == {"", "list ", "show all ", "get ", "view ", "mostre ", "mostre o ",
             "liste os ", "find ", "busque itens com ", "me mostre os "}
Objects  == {"", "boards", "board", "kanban", "quadros", "work item", "work items",
             "item", "itens", "bugs", "tarefa", "help", "xyz"}
Suffixes == {"", " 456", " #123", " login", " disponíveis", " active bug"}

CharUpper(c) ==
    IF c \in CharSet(LowerChars)
    THEN Chr(UpperChars, CHOOSE k \in 1..Len(LowerChars) : Chr(LowerChars, k) = c)
    ELSE c

Capitalized(s) == IF s = "" THEN s ELSE CharUpper(Head(s)) \o Tail(s)

\* each text as typed, capitalised, and with surrounding white space
\* a number of one digit more than int() converts
LongNumber == Joined([k \in 1..(IntMaxStrDigits + 1) |-> "7"], 1, IntMaxStrDigits + 1)

\* each text as typed, capitalised, and with surrounding white space; an item
\* number with leading zeros, the item number 0, and an item number too long
ParserTexts ==
    LET plain == {a \o b \o c : a \in Prefixes, b \in Objects, c \in Suffixes}
    IN plain \cup {Capitalized(t) : t \in plain} \cup {"  " \o t \o " \n" : t \in plain}
       \cup {"Mostre o item #123", "Mostre o item 007", "item 0", "item " \o LongNumber}

ParserInit ==
    /\ pText \in ParserTexts
    /\ pResult = NoResult
    /\ pPc = "input"
    /\ pExc = ""

ParserIdle ==
    /\ pText = ""
    /\ pResult = NoResult
    /\ pPc = "idle"
    /\ pExc = ""

\* one call of CommandParser.parse
ParseText ==
    /\ pPc = "input"
    /\ LET out == parse(pText)
       IN IF IsRaise(out)
          THEN pResult' = NoResult /\ pExc' = out.raise /\ pPc' = "raised"
          ELSE pResult' = out /\ pExc' = "" /\ pPc' = "parsed"
    /\ UNCHANGED pText
    /\ UNCHANGED <<orchVars, chatVars, providerVars, validatorVars, sanitizerVars,
                   templateVars, conversationVars>>

vars == <<parserVars, orchVars, chatVars, providerVars, validatorVars, sanitizerVars, templateVars,
          conversationVars>>

ParserNext == ParseText

InitParser == ParserInit /\ OrchOff /\ ChatIdle /\ ProviderIdle /\ ValidatorIdle /\ SanitizerIdle
    /\ TemplateIdle /\ ConversationIdle

SpecParser == InitParser /\ [][ParserNext]_vars

Next == OrchNext

Init == ParserIdle /\ OrchInit /\ ChatIdle /\ ProviderIdle /\ ValidatorIdle /\ SanitizerIdle
    /\ TemplateIdle /\ ConversationIdle

Spec == Init /\ [][Next]_vars

NextChat == ChatNext

InitChat == ParserIdle /\ OrchOff /\ ChatInit /\ ProviderIdle /\ ValidatorIdle /\ SanitizerIdle
    /\ TemplateIdle /\ ConversationIdle

SpecChat == InitChat /\ [][NextChat]_vars

\* every started thread keeps running: the scheduler is fair to it, and each
\* network call it waits for returns or fails
FairSpecChat ==
    SpecChat /\ \A n \in 1..MaxSends : WF_vars(WorkerStep(n))

NextProvider == ProviderNext

InitProvider == ParserIdle /\ OrchOff /\ ChatIdle /\ ProviderInit /\ ValidatorIdle /\ SanitizerIdle
    /\ TemplateIdle /\ ConversationIdle

SpecProvider == InitProvider /\ [][NextProvider]_vars

NextValidator == ValidatorNext

InitValidator == ParserIdle /\ OrchOff /\ ChatIdle /\ ProviderIdle /\ ValidatorInit /\ SanitizerIdle
    /\ TemplateIdle /\ ConversationIdle

SpecValidator == InitValidator /\ [][NextValidator]_vars

NextSanitizer == SanitizerNext

InitSanitizer == ParserIdle /\ OrchOff /\ ChatIdle /\ ProviderIdle /\ ValidatorIdle /\ SanitizerInit
    /\ TemplateIdle /\ ConversationIdle

SpecSanitizer == InitSanitizer /\ [][NextSanitizer]_vars

NextTemplates == TemplateNext

InitTemplates ==
    ParserIdle /\ OrchOff /\ ChatIdle /\ ProviderIdle /\ ValidatorIdle /\ SanitizerIdle
    /\ TemplateInit /\ ConversationIdle

SpecTemplates == InitTemplates /\ [][NextTemplates]_vars

NextConversation == ConversationNext

InitConversation ==
    ParserIdle /\ OrchOff /\ ChatIdle /\ ProviderIdle /\ ValidatorIdle /\ SanitizerIdle
    /\ TemplateIdle /\ ConversationInit

SpecConversation == InitConversation /\ [][NextConversation]_vars

-----------------------------------------------------------------------------
(* Claims about CommandParser.parse, checked under SpecParser *)

IntentOrder == <<"LIST_BOARDS", "LIST_WORK_ITEMS", "GET_WORK_ITEM",
                 "SEARCH_WORK_ITEMS", "GET_BOARD", "HELP">>

PatternsOf(intent) ==
    (CHOOSE e \in {patterns[k] : k \in 1..Len(patterns)} : e.intent = intent).pats

\* the (intent, pattern) pairs, by position in IntentOrder and in the intent's
\* list, whose pattern matches the trimmed, lower-cased text
MatchingPairs(text) ==
    {h \in (1..Len(IntentOrder)) \X (1..5) :
        /\ h[2] <= Len(PatternsOf(IntentOrder[h[1]]))
        /\ ReSearch(PatRe(PatternsOf(IntentOrder[h[1]])[h[2]]),
                    StrLower(StrStrip(text))).found}

Earlier(h, g) == h[1] < g[1] \/ (h[1] = g[1] /\ h[2] <= g[2])

\* C1: the command_type returned by parse is the intent of the first
\* (intent, pattern) pair, in table order, whose pattern matches the trimmed,
\* lower-cased text; with no matching pair the result is UNKNOWN with
\* confidence 0.0 and empty parameters.
C1_FirstMatchInTableOrder ==
    pPc = "parsed" =>
        LET hits == MatchingPairs(pText)
        IN IF hits = {}
           THEN /\ pResult.command_type = "UNKNOWN"
                /\ pResult.confidence.n = 0
                /\ pResult.parameters = EmptyMap
           ELSE \E h \in hits :
                    /\ \A g \in hits : Earlier(h, g)
                    /\ pResult.command_type = IntentOrder[h[1]]

\* a text that patterns of two intents match has been parsed to the earlier one
C1_Witness ==
    /\ pPc = "parsed"
    /\ \E h, g \in MatchingPairs(pText) : h[1] < g[1]
    /\ pText = "get work item 456"
    /\ pResult.command_type = "LIST_WORK_ITEMS"

\* C14: parse never raises, and the confidence of the ParsedCommand it returns
\* lies in [0, 1].
C14_ParseNeverRaises ==
    /\ pPc # "raised"
    /\ pPc = "parsed" =>
           /\ 0 <= pResult.confidence.n
           /\ pResult.confidence.n <= pResult.confidence.d

\* the match parse scores: the first matching pair's, on the normalised text
ScoredMatch(text) ==
    LET hits == MatchingPairs(text)
        h == CHOOSE h \in hits : \A g \in hits : Earlier(h, g)
    IN ReSearch(PatRe(PatternsOf(IntentOrder[h[1]])[h[2]]), StrLower(StrStrip(text)))

\* C15: the confidence of a matched text is
\* min(1, 0.5 + 0.3 [the match is the whole normalised text]
\*           + 0.2 * match length / text length + 0.1 * keywords in the text);
\* a match of the whole text scores 1.0 and every match scores more than 0.5.
\* With L the text length the sum is
\* (5L + 3L [whole] + 2 * match length + L * keywords) / 10L.
C15_ConfidenceFormula ==
    (pPc = "parsed" /\ pResult.command_type # "UNKNOWN") =>
        LET text  == StrLower(StrStrip(pText))
            L     == Len(text)
            m     == ScoredMatch(pText)
            mlen  == m.end - m.start
            whole == mlen = L
            kws   == Cardinality({k \in DOMAIN SpecificKeywords :
                                     Contains(text, SpecificKeywords[k])})
            sumN  == 5 * L + (IF whole THEN 3 * L ELSE 0) + 2 * mlen + L * kws
            sumD  == 10 * L
            c     == pResult.confidence
        IN /\ IF sumN >= sumD THEN c.n = c.d ELSE c.n * sumD = sumN * c.d
           /\ whole => c.n = c.d
           /\ 2 * c.n > c.d

\* a match of part of the text, with two keywords in the text, scored below 1.0
C15_Witness ==
    /\ pPc = "parsed"
    /\ pText = "get work item 456"
    /\ pResult.confidence.n * 170 = 128 * pResult.confidence.d
    /\ ScoredMatch(pText).end - ScoredMatch(pText).start = 13

HasUpper(s) == CharSet(s) \cap CharSet(UpperChars) # {}

\* C16: original_text keeps the casing of the input: when the input holds
\* upper-case letters, so does original_text.
C16_OriginalTextKeepsCasing ==
    (pPc = "parsed" /\ HasUpper(pText)) => HasUpper(pResult.original_text)

\* the texts "Mostre o item #N", "Mostre o item N" and "item N"
ItemForms == {"Mostre o item #", "Mostre o item ", "item "}
IsDecimal(s) == s # "" /\ CharSet(s) \subseteq CharSet(DigitChars)
IsItemForm(text) ==
    \E f \in ItemForms :
        /\ Len(text) > Len(f)
        /\ SubSeq(text, 1, Len(f)) = f
        /\ IsDecimal(SubSeq(text, Len(f) + 1, Len(text)))

\* the first run of digits of a text that has a digit
FirstDigitRun(text) ==
    LET digit == Cls(CharSet(DigitChars))
        first == CHOOSE i \in 1..Len(text) :
                     /\ MatchesAt(digit, text, i)
                     /\ \A j \in 1..(i - 1) : ~MatchesAt(digit, text, j)
    IN SubSeq(text, first, RunStop(digit, text, first) - 1)

\* C17: a text "Mostre o item #N", "Mostre o item N" or "item N" resolves to
\* GET_WORK_ITEM with work_item_id = N; and whenever the result is
\* GET_WORK_ITEM, work_item_id is present and is the first integer of the text.
C17_ItemNumberIsExtracted ==
    /\ (pPc # "input" /\ IsItemForm(pText)) =>
           /\ pPc = "parsed"
           /\ pResult.command_type = "GET_WORK_ITEM"
           /\ "work_item_id" \in DOMAIN pResult.parameters
           /\ pResult.parameters["work_item_id"] = ParseInt(FirstDigitRun(pText), 0)
    /\ (pPc = "parsed" /\ pResult.command_type = "GET_WORK_ITEM") =>
           /\ "work_item_id" \in DOMAIN pResult.parameters
           /\ pResult.parameters["work_item_id"] = ParseInt(FirstDigitRun(pText), 0)

\* the commands for one work item that the help and the tips advertise, with
\* the id they name
AdvertisedItems == [t \in {"Get work item 456", "Mostre o item #123", "mostre item #123"} |->
                       IF t = "Get work item 456" THEN 456 ELSE 123]

\* the names put for [nome] in the tip "mostre board [nome]"
BoardNames == {"login", "456"}

\* C30: the commands for one item that the help and tip templates advertise
\* resolve to the intent for one item: "Get work item 456" and "Mostre o item
\* #123" to GET_WORK_ITEM with that id, "mostre board <nome>" to GET_BOARD
\* with board_name = <nome>; no list intent takes them.
C30_AdvertisedCommandsResolve ==
    pPc # "input" =>
        /\ pText \in DOMAIN AdvertisedItems =>
              /\ pPc = "parsed"
              /\ pResult.command_type = "GET_WORK_ITEM"
              /\ "work_item_id" \in DOMAIN pResult.parameters
              /\ pResult.parameters["work_item_id"] = AdvertisedItems[pText]
        /\ \A nome \in BoardNames :
              pText = "mostre board " \o nome =>
                  /\ pPc = "parsed"
                  /\ pResult.command_type = "GET_BOARD"
                  /\ "board_name" \in DOMAIN pResult.parameters
                  /\ pResult.parameters["board_name"] = nome

-----------------------------------------------------------------------------
(* Claims about the message-processing cycle, checked under Spec *)

\* the provider has answered the parser's prompt with content
Answered == oReply # <<>>

Fallback(content) == JObj("direct_response" :> JStr(content))

\* C2: CommandLLMParser.parse never raises on the content of the provider's
\* response: content that is not valid JSON gives exactly
\* {"direct_response": content}, content that is valid JSON gives the decoded
\* value (the body {"function":"listar_boards","parameters":{}} gives a mapping
\* whose "function" is "listar_boards"), and no decoding error reaches the caller.
C2_ParseFallsBackOnInvalidJson ==
    Answered =>
        LET content == oReply[1] IN
        /\ oOutcome.exc # "JSONDecodeError"
        /\ content \in NonJsonReplies => oParsed = Fallback(content)
        /\ content \in FunctionReplies =>
              /\ oParsed.k = "obj"
              /\ "function" \in DOMAIN oParsed.o
              /\ oParsed.o["function"].k = "str"
              /\ Contains(content, "\"" \o oParsed.o["function"].s \o "\"")
        /\ content = "{\"function\":\"listar_boards\",\"parameters\":{}}" =>
              oParsed = JObj([function |-> JStr("listar_boards"),
                              parameters |-> JObj(EmptyMap)])
        /\ content = "{}" => oParsed = JObj(EmptyMap)
        /\ content = "[1, 2]" => oParsed = JArr(<<JNum(1), JNum(2)>>)
        /\ content = "42" => oParsed = JNum(42)
        /\ content = "null" => oParsed = JNull
        /\ content = "{\"direct_response\": 7}" =>
              oParsed = JObj("direct_response" :> JNum(7))

C2_Witness ==
    /\ oPc = "routing"
    /\ oReply = <<"{'function': 'listar_boards'}">>
    /\ oParsed = Fallback("{'function': 'listar_boards'}")

\* C3: the value parse returns to the orchestrator is a mapping that has the
\* key "function" (with a "parameters" mapping) or the key "direct_response";
\* an empty mapping, a list, a number or a bare string is never returned.
C3_ParseReturnsAContractShape ==
    Answered /\ oPc = "routing" =>
        /\ oParsed.k = "obj"
        /\ \/ "direct_response" \in DOMAIN oParsed.o
           \/ /\ "function" \in DOMAIN oParsed.o
              /\ "parameters" \in DOMAIN oParsed.o
              /\ oParsed.o["parameters"].k = "obj"

\* the function names process_message has a branch for
RecognizedFunctions == {"listar_work_items", "listar_boards", "buscar_work_item",
                        "mostrar_work_item"}

YieldsRecognizedFunction(parsed) ==
    /\ parsed.k = "obj"
    /\ "function" \in DOMAIN parsed.o
    /\ parsed.o["function"].k = "str"
    /\ parsed.o["function"].s \in RecognizedFunctions

IsDirectResponse(parsed) == parsed.k = "obj" /\ "direct_response" \in DOMAIN parsed.o

\* C4: when the output of the LLM parser yields no recognized function name
\* (an unrecognized function, or neither contract shape), the cycle runs the
\* pattern command parser on the user text before it produces its response.
C4_DefersToPatternParser ==
    (/\ oPc = "done"
     /\ Answered
     /\ ~YieldsRecognizedFunction(oParsed)
     /\ ~IsDirectResponse(oParsed))
    => \E i \in 1..Len(oTrace) : oTrace[i] = "command_parser.parse"

ClientEvents == {ClientEventOf(m) : m \in ServiceMethods}

\* C5: no call of the tracking-service client is made unless the command
\* validator has run before it in the same cycle.
C5_ValidatePrecedesExecute ==
    \A i \in 1..Len(oTrace) :
        oTrace[i] \in ClientEvents =>
            \E j \in 1..(i - 1) : oTrace[j] = "command_validator.validate_command"

\* C6: process_user_message ends every cycle by returning a string; no
\* exception leaves it.
C6_AlwaysReturnsAString ==
    oPc = "done" => oOutcome.kind = "returned" /\ oOutcome.v.k = "str"

\* C7: when mostrar_work_item asks for an id the tracking service does not
\* have, the response of the cycle is the error_not_found template rendered
\* with the item's type, id and project.
C7_NotFoundRendersItsTemplate ==
    (/\ oPc = "done"
     /\ IsName(oFunc, "mostrar_work_item")
     /\ oCall.method = "get_work_item_by_id"
     /\ oStatus = 404)
    => /\ oOutcome.kind = "returned"
       /\ oOutcome.v = JStr(render_template("error_not_found",
                               [item_type |-> "Work Item",
                                item_id |-> IdText(oCall.arg)]))

IsRelative(v, word) == v.k = "str" /\ StrLower(v.s) = word

DateFields == {"criado_em", "modificado_em"}

\* params name a relative date in criado_em or modificado_em
AsksRelativeDate(ps) ==
    /\ ps.k = "obj"
    /\ \E f \in DateFields \cap DOMAIN ps.o :
          IsRelative(ps.o[f], "hoje") \/ IsRelative(ps.o[f], "ontem")

\* C8: for listar_work_items and buscar_work_item whose criado_em or
\* modificado_em is "hoje" or "ontem" in any letter case, the client's
\* search_work_items_advanced receives a filter with today's or yesterday's
\* date as YYYY-MM-DD in that field and the other accepted filters unchanged.
C8_RelativeDatesReachTheClient ==
    (/\ oPc = "done"
     /\ oConfigured
     /\ IsName(oFunc, "listar_work_items") \/ IsName(oFunc, "buscar_work_item")
     /\ AsksRelativeDate(oParams))
    => /\ \E i \in 1..Len(oTrace) :
              oTrace[i] = ClientEventOf("search_work_items_advanced")
       /\ oCall.method = "search_work_items_advanced"
       /\ oCall.arg.k = "obj"
       /\ \A f \in DOMAIN oParams.o \cap filtros_aceitos :
             /\ f \in DOMAIN oCall.arg.o
             /\ oCall.arg.o[f] =
                   IF f \in DateFields /\ IsRelative(oParams.o[f], "hoje")
                   THEN JStr(FormatDate(oNow))
                   ELSE IF f \in DateFields /\ IsRelative(oParams.o[f], "ontem")
                        THEN JStr(FormatDate(DayBefore(oNow)))
                   ELSE oParams.o[f]

\* the filters of listar_work_items the claim is about
QueryFilters == {"tipo", "estado", "atribuido_para", "limite"}

\* the call carries the filter f of params: under its name in the filter of
\* search_work_items_advanced, as the keyword argument of get_work_items
CarriesFilter(call, o, f) ==
    /\ call.arg.k = "obj"
    /\ CASE call.method = "search_work_items_advanced" ->
               f \in DOMAIN call.arg.o /\ call.arg.o[f] = o[f]
         [] call.method = "get_work_items" ->
               CASE f = "tipo" -> call.arg.o["work_item_types"] = JArr(<<o[f]>>)
                 [] f = "estado" -> call.arg.o["state"] = o[f]
                 [] f = "atribuido_para" -> call.arg.o["assigned_to"] = o[f]
                 [] f = "limite" -> call.arg.o["top"] = o[f]
         [] OTHER -> FALSE

\* C29: for listar_work_items, every filter among tipo, estado,
\* atribuido_para and limite that the reply supplies is carried by the
\* tracking-service call the orchestrator makes for it, also when other
\* filters are supplied with it.
C29_SuppliedFiltersReachTheQuery ==
    (/\ oPc = "done"
     /\ oConfigured
     /\ IsName(oFunc, "listar_work_items")
     /\ oParams.k = "obj"
     /\ oCall # NoCall)
    => \A f \in DOMAIN oParams.o \cap QueryFilters : CarriesFilter(oCall, oParams.o, f)

-----------------------------------------------------------------------------
(* Claims about the chat widget's threads, checked under SpecChat and      *)
(* FairSpecChat                                                            *)

ResponseRoles == {"assistant", "error"}

\* C9: every mutation of the chat display and of ChatWidget.messages that a
\* response causes (an assistant or error entry) is carried out by the
\* interface thread, never by the thread send_message started.
C9_ResponsesMutateOnTheInterfaceThread ==
    /\ \A i \in DOMAIN cHistory :
          cHistory[i].role \in ResponseRoles => cHistory[i].by = "interface"
    /\ \A i \in DOMAIN cDisplay :
          cDisplay[i].tag \in ResponseRoles => cDisplay[i].by = "interface"

\* the places in self.messages of the n-th message's responses and user entry
ResponsesOf(n) ==
    {i \in DOMAIN cHistory : cHistory[i].of = n /\ cHistory[i].role \in ResponseRoles}
UserEntriesOf(n) ==
    {i \in DOMAIN cHistory : cHistory[i].of = n /\ cHistory[i].role = "user"}

OneResponseAfterUserEntry ==
    \A n \in 1..MaxSends :
        /\ Cardinality(ResponsesOf(n)) <= 1
        /\ Cardinality(UserEntriesOf(n)) = IF n \in Threads THEN 1 ELSE 0
        /\ \A i \in UserEntriesOf(n) :
              n \in Threads /\ cHistory[i].content = cWorkers[n].message
        /\ \A i \in ResponsesOf(n) : \E j \in UserEntriesOf(n) : j < i
        /\ n \in Threads /\ cWorkers[n].pc = "finished" =>
              Cardinality(ResponsesOf(n)) = 1

\* a step leaves self.messages as it is or adds one entry at its end
AppendOnly ==
    \/ cHistory' = cHistory
    \/ /\ Len(cHistory') = Len(cHistory) + 1
       /\ SubSeq(cHistory', 1, Len(cHistory)) = cHistory

\* C10: under any interleaving of the threads, every non-empty message sent
\* eventually has exactly one response entry (assistant or error) in
\* self.messages, that entry comes after the message's user entry, and no
\* entry is lost or duplicated; the order of the responses to different
\* messages is free.
C10_EveryMessageGetsOneResponse ==
    /\ []OneResponseAfterUserEntry
    /\ [][AppendOnly]_vars
    /\ \A n \in 1..MaxSends :
          (n \in Threads) ~> (n \in Threads /\ Cardinality(ResponsesOf(n)) = 1)

\* two messages in flight, answered in the reverse of the order they were sent
C10_Witness ==
    /\ Len(cHistory) = 4
    /\ cHistory[1].role = "user" /\ cHistory[1].of = 1
    /\ cHistory[2].role = "user" /\ cHistory[2].of = 2
    /\ cHistory[3].role = "assistant" /\ cHistory[3].of = 2
    /\ cHistory[4].role = "error" /\ cHistory[4].of = 1
    /\ \A n \in 1..2 : cWorkers[n].pc = "finished"

-----------------------------------------------------------------------------
(* Claim about the providers the message path constructs, checked under Spec *)

\* C11: the language-model providers are constructed once and reused: however
\* many messages are processed, no more providers are ever constructed than
\* two, the one the command parser uses and the one the summary uses.
C11_ProvidersConstructedOnce == oProviders <= 2

-----------------------------------------------------------------------------
(* Claims about the providers' generate, checked under SpecProvider *)

\* C12: a finished call of generate, on any provider and any request, has
\* either returned a response whose content, model and provider are all
\* filled, or raised a provider error and nothing else.
C12_GenerateReturnsFilledOrRaises ==
    gPc = "done" =>
        \/ /\ gOutcome.kind = "response"
           /\ gOutcome.content # <<>> /\ gOutcome.model # "" /\ gOutcome.provider # ""
        \/ /\ gOutcome.kind = "raised" /\ gOutcome.exc = "LLMProviderError"

\* C13: when the vendor answers 401 or 429, every provider raises a provider
\* error that carries the vendor's name and that status code.
C13_AuthAndRateLimitKeepStatus ==
    (gPc = "done" /\ gVendor.kind = "fail" /\ gVendor.status \in {401, 429}) =>
        /\ gOutcome.kind = "raised"
        /\ gOutcome.exc = "LLMProviderError"
        /\ gOutcome.provider = gProvider
        /\ gOutcome.status_code = gVendor.status

-----------------------------------------------------------------------------
(* Claims about CommandValidator.validate_command, checked under           *)
(* SpecValidator                                                           *)

LowConfidenceMessages == {HighMessage, MediumMessage}

HasError(result, messages) == \E k \in DOMAIN result.errors : result.errors[k] \in messages

\* C18: a command is valid only if it has no errors and its adjusted
\* confidence is at least 0.3; an adjusted confidence below 0.5 is an error at
\* MEDIUM, below 0.7 at HIGH, and LOW adds no threshold; a command valid at
\* HIGH is valid at MEDIUM, and one valid at MEDIUM is valid at LOW.
C18_ValidityAndLevels ==
    vPc = "validated" =>
        /\ vResult.is_valid => (vResult.errors = <<>> /\ AtLeast(vResult.confidence, 3))
        /\ vLevel = "MEDIUM" =>
              (HasError(vResult, {MediumMessage}) <=> ~AtLeast(vResult.confidence, 5))
        /\ vLevel = "HIGH" =>
              (HasError(vResult, {HighMessage}) <=> ~AtLeast(vResult.confidence, 7))
        /\ vLevel = "LOW" => ~HasError(vResult, LowConfidenceMessages)
        /\ (vLevel = "HIGH" /\ vResult.is_valid) => validate_command(vCommand, "MEDIUM").is_valid
        /\ (vLevel = "MEDIUM" /\ vResult.is_valid) => validate_command(vCommand, "LOW").is_valid

\* a command without errors is refused at LOW by the 0.3 floor alone
C18_Witness ==
    /\ vPc = "validated"
    /\ vLevel = "LOW"
    /\ vResult.errors = <<>>
    /\ ~AtLeast(vResult.confidence, 3)
    /\ ~vResult.is_valid

\* C19: a GET_WORK_ITEM command whose work_item_id is not a positive integer
\* is invalid and has errors, at every validation level.
C19_BadWorkItemIdIsInvalid ==
    (/\ vPc = "validated"
     /\ vCommand.command_type = "GET_WORK_ITEM"
     /\ "work_item_id" \in DOMAIN vCommand.parameters
     /\ vCommand.parameters["work_item_id"] <= 0) =>
        /\ ~vResult.is_valid
        /\ vResult.errors # <<>>

\* <script ...>, with or without attributes: the tag's name, closed further on
HasScriptTag(text) ==
    \E i \in 1..(Len(text) - 6) :
        /\ SubSeq(text, i, i + 6) = "<script"
        /\ \E j \in (i + 7)..Len(text) : Chr(text, j) = ">"

HasInjection(text) ==
    \/ HasScriptTag(StrLower(text))
    \/ Contains(StrLower(text), "javascript:")
    \/ ReSearch(EventHandler, text).found

RecognizedIntents == {"LIST_BOARDS", "LIST_WORK_ITEMS", "GET_WORK_ITEM", "SEARCH_WORK_ITEMS",
                      "GET_BOARD", "HELP"}

\* C20: for every recognized intent, a text with a script tag, a javascript:
\* URI or an inline event handler is a forbidden-pattern violation: the
\* result has an error, the confidence is lowered by the penalty, and the
\* command is invalid.
C20_InjectionIsForbidden ==
    (/\ vPc = "validated"
     /\ vCommand.command_type \in RecognizedIntents
     /\ HasInjection(vCommand.original_text)) =>
        /\ ~vResult.is_valid
        /\ \E k \in DOMAIN vResult.errors :
              Contains(vResult.errors[k], "Comando contém padrão proibido")
        /\ \/ vResult.confidence.n = 0
           \/ 10 * vResult.confidence.n * vCommand.confidence.d
                 <= (10 * vCommand.confidence.n - 5 * vCommand.confidence.d)
                    * vResult.confidence.d

-----------------------------------------------------------------------------
(* Claims about _sanitize_command and get_security_score, checked under    *)
(* SpecSanitizer                                                           *)

\* C21: sanitization is idempotent: sanitizing a sanitized command text gives
\* the same text.
C21_SanitizeIsIdempotent == sPc = "again" => sAgain = sSanitized

\* an element inside a tag: the first call removes the element, then the tags
\* its removal completes, and the second call finds nothing to remove
C21_Witness ==
    /\ sPc = "again"
    /\ sCommand = "<scr<script>x</script>ipt>alert(1)</script>"
    /\ sSanitized = "alert(1)"
    /\ sAgain = sSanitized

\* the patterns of a family that match a command text
Matching(pats, command) == {k \in DOMAIN pats : ReSearch(pats[k], command).found}

\* 1.0 - 0.5 x - 0.3 s - 0.2 c in tenths, for the numbers of matching patterns
Tenths(command) ==
    10 - 5 * Cardinality(Matching(dangerous_patterns, command))
       - 3 * Cardinality(Matching(sql_patterns, command))
       - 2 * Cardinality(Matching(cmd_patterns, command))

\* the matching patterns of a text, family by family
Families(command) ==
    <<Matching(dangerous_patterns, command), Matching(sql_patterns, command),
      Matching(cmd_patterns, command)>>

\* the families and the score of the texts a scored text is compared with
Compared == [t \in SecurityTexts |-> [families |-> Families(t), score |-> get_security_score(t)]]

\* C22: the security score is 1.0 less 0.5 per matching XSS-like pattern, 0.3
\* per matching SQL-like pattern and 0.2 per matching command-like pattern,
\* floored at 0.0; it lies in [0, 1], and a text that matches all the patterns
\* another matches, and more, never has the higher score.
C22_SecurityScore ==
    sPc = "scored" =>
        LET mine == Families(sCommand)
            tenths == Tenths(sCommand)
        IN /\ sScore.d = 10
           /\ sScore.n = (IF tenths < 0 THEN 0 ELSE tenths)
           /\ 0 <= sScore.n /\ sScore.n <= sScore.d
           /\ \A t \in SecurityTexts :
                 (\A f \in 1..3 : mine[f] \subseteq Compared[t].families[f])
                    => Compared[t].score.n <= sScore.n

\* patterns of the three families match, and the floor is what keeps the score at 0
C22_Witness ==
    /\ sPc = "scored"
    /\ Matching(dangerous_patterns, sCommand) # {}
    /\ Matching(sql_patterns, sCommand) # {}
    /\ Matching(cmd_patterns, sCommand) # {}
    /\ Tenths(sCommand) < 0
    /\ sScore.n = 0

-----------------------------------------------------------------------------
(* Claim about render_template and create_error_response, checked under    *)
(* SpecTemplates                                                           *)

MissingFields(template_name, kwargs) ==
    FieldsOf(template_name) \ (DOMAIN kwargs \cup DOMAIN ContextVars)

\* C23: render_template never raises: it returns the not-found string for a
\* template name that is not registered and, for a registered one, the
\* rendering-error string when a placeholder has no variable and the rendered
\* text otherwise; create_error_response with an error type that has no
\* template renders error_generic.
C23_RenderNeverRaises ==
    tPc = "rendered" =>
        /\ tOutcome.raise = ""
        /\ (tCall.op = "render_template" /\ tCall.name \notin DOMAIN templates) =>
              tOutcome.text = "Template '" \o tCall.name \o "' não encontrado."
        /\ (tCall.op = "render_template" /\ tCall.name \in DOMAIN templates) =>
              IF MissingFields(tCall.name, tCall.kwargs) # {}
              THEN \E f \in MissingFields(tCall.name, tCall.kwargs) :
                      tOutcome.text = "Erro ao renderizar template: variável '" \o f
                                      \o "' não encontrada."
              ELSE \A f \in FieldsOf(tCall.name) :
                      Contains(tOutcome.text, (tCall.kwargs @@ ContextVars)[f])
        /\ (tCall.op = "create_error_response"
            /\ ("error_" \o tCall.name) \notin DOMAIN templates) =>
              tOutcome.text = render_template("error_generic", tCall.kwargs)

\* a registered template rendered without one of its variables
C23_Witness ==
    /\ tPc = "rendered"
    /\ tCall.op = "render_template"
    /\ tCall.name = "boards_list"
    /\ DOMAIN tCall.kwargs = {"boards_table"}
    /\ tOutcome = Returns("Erro ao renderizar template: variável 'count' não encontrada.")

-----------------------------------------------------------------------------
(* ConversationManager: the log of a session and the context made of it *)

\* C24: after any sequence of add_message calls, with any mix of roles, a
\* session holds at most max_history_length messages.
C24_LogIsCapped ==
    \A s \in DOMAIN kActive : Len(kActive[s].messages) <= max_history_length

\* C25: after any sequence of add_message calls every message still in the
\* session is there once, and the messages are in the order they were added:
\* their numbers increase along the log.
C25_TrimKeepsEachMessageOnce ==
    \A s \in DOMAIN kActive :
        \A i, j \in 1..Len(kActive[s].messages) :
            i < j => kActive[s].messages[i].n < kActive[s].messages[j].n

LlmMessages(messages) == [i \in 1..Len(messages) |-> LlmMessage(messages[i])]

\* C26: get_conversation_for_llm returns the system messages of the session
\* first, in the order they were added, followed by a run of the most recent
\* (at most 10) messages that are not system messages, in that order too.
C26_SystemFirstInOrder ==
    kCall.op = "get_conversation_for_llm" =>
        LET messages == kActive[kCall.session_id].messages
            others == SelectSeq(messages, NotSystem)
        IN \E k \in 0..10 :
              kCall.result = LlmMessages(SelectSeq(messages, IsSystem))
                                 \o LlmMessages(LastOf(others, k))

\* C27: the content lengths of the messages get_conversation_for_llm returns
\* add up to at most max_length, and to at most max_context_length when no
\* max_length is given, the system messages included.
C27_ContextIsBounded ==
    kCall.op = "get_conversation_for_llm" =>
        SumLen(kCall.result, 1)
            <= (IF kCall.max_length = 0 THEN max_context_length ELSE kCall.max_length)

\* C28: create_session returns an id that no active session had when it was
\* called, and leaves the messages of the sessions that were active as they were.
C28_CreateKeepsActiveSessions ==
    kCall.op = "create_session" =>
        /\ kCall.session_id \notin DOMAIN kBefore
        /\ \A s \in DOMAIN kBefore :
              s \in DOMAIN kActive /\ kActive[s].messages = kBefore[s].messages

====
